---- MODULE Spec2Model ----
(***************************************************************************)
(* A model of atef/config.py: the configuration tree, its preparation     *)
(* into a prepared tree (PreparedFile / PreparedGroup / Prepared*Config-  *)
(* uration / PreparedComparison), the execution of the prepared tree with *)
(* compare(), and the severity fold _summarize_result_severity.           *)
(***************************************************************************)
EXTENDS Integers, Sequences, FiniteSets, TLC

VARIABLES
    sr_mode,      \* _summarize_result_severity: the `mode` argument
    sr_results,   \* _summarize_result_severity: the `results` argument
    sr_out,       \* _summarize_result_severity: <<the returned Severity>>, <<>> before the call
    config,       \* the configuration handed to from_config
    env,          \* what the collaborators answer: happi, device attributes, tool keys, PVs
    prepared,     \* <<what from_config returned>>, <<>> before the call
    result,       \* node path -> the node's result field
    leaf,         \* leaf id -> the leaf's result and data fields, and what its last run did
    unset,        \* the leaves whose signal field is None
    stack,        \* the compare() calls in progress, outermost first
    inflight,     \* the leaves whose compare() awaits get_data_async
    returned,     \* the paths of the nodes whose compare() has returned
    ret,          \* <<what PreparedFile.compare returned>>, <<>> before it returns
    pass,         \* the number of the PreparedFile.compare call (1 for the first)
    gens,         \* the generators made by walk_* and get_by_* calls, each with its own cursor
    report,       \* <<the last get_result_from_comparison call>>, <<>> before the first
    source,       \* cache key -> what the underlying fetch for it does (<<>>: not fixed)
    cache_data,   \* DataCache: key -> the fetch kept for it
    fetches,      \* DataCache: key -> how many underlying fetches were issued
    tasks,        \* fill_cache: leaf id -> its get_data_async call
    fill          \* <<the last fill_cache call>>, <<>> before the first

sr_vars == <<sr_mode, sr_results, sr_out>>

prep_vars == <<config, env, prepared>>

run_vars == <<result, leaf, unset, stack, inflight, returned, ret, pass>>

walk_vars == <<gens, report>>

fill_vars == <<source, cache_data, fetches, tasks, fill>>

vars == <<sr_mode, sr_results, sr_out, config, env, prepared,
          result, leaf, unset, stack, inflight, returned, ret, pass,
          gens, report, source, cache_data, fetches, tasks, fill>>

----------------------------------------------------------------------------
(* Severity (atef.enums.Severity, an IntEnum) and GroupResultMode.         *)

success == 0
warning == 1
error == 2
internal_error == 3

Severity == {success, warning, error, internal_error}

all_ == "all"
any_ == "any"
\* A value of `mode` that is neither GroupResultMode.all_ nor .any_.
other_mode == "other"

GroupResultMode == {all_, any_}

\* Result(severity=..., reason=...); the reason is kept as a tuple of the
\* strings it is built from, <<>> for None.
Result(sev, why) == [type |-> "Result", severity |-> sev, reason |-> why]

\* Result(): the dataclass defaults.
DefaultResult == Result(success, <<>>)

\* The two non-Result entries `results` may hold.
NoneEntry == [type |-> "None"]
ExceptionEntry == [type |-> "Exception"]

----------------------------------------------------------------------------
(* Bounds of the model.                                                    *)

\* Longest `results` list handed to _summarize_result_severity on its own.
MaxLen == 3

\* Most device names in a DeviceConfiguration prepared on its own.
MaxDevs == 2

\* Most keys of a by_attr / by_pv dict prepared on its own.
MaxKeys == 2

\* Longest comparison list (one attribute's list, or the shared list).
MaxCmps == 1

\* Most children of a ConfigurationGroup prepared on its own.
MaxChildren == 2

\* Most children of the root group of an executed file.
MaxNodes == 2

\* Most leaves bound in an executed file.
MaxLeaves == 2

\* The most PreparedFile.compare() calls made on one prepared file.
MaxPasses == 2

----------------------------------------------------------------------------
(* util.get_maximum_severity / util.get_minimum_severity.                  *)

RECURSIVE MaxOf(_, _)
MaxOf(seq, acc) ==
    IF seq = <<>> THEN acc
    ELSE MaxOf(Tail(seq), IF Head(seq) > acc THEN Head(seq) ELSE acc)

RECURSIVE MinOf(_, _)
MinOf(seq, acc) ==
    IF seq = <<>> THEN acc
    ELSE MinOf(Tail(seq), IF Head(seq) < acc THEN Head(seq) ELSE acc)

\* max(severities + (Severity.success,))
get_maximum_severity(severities) == MaxOf(severities, success)

\* min(severities + (Severity.internal_error,))
get_minimum_severity(severities) == MinOf(severities, internal_error)

----------------------------------------------------------------------------
(* _summarize_result_severity(mode, results)                               *)

IsResult(r) == r.type = "Result"

SeveritiesOf(results) ==
    LET kept == SelectSeq(results, IsResult)
    IN  [i \in 1..Len(kept) |-> kept[i].severity]

\* Mutant: the two mode branches exchanged.
summarize_modes_swapped(mode, results) ==
    IF \E i \in 1..Len(results) : results[i].type \in {"None", "Exception"}
    THEN error
    ELSE IF mode = all_ THEN get_minimum_severity(SeveritiesOf(results))
    ELSE IF mode = any_ THEN get_maximum_severity(SeveritiesOf(results))
    ELSE internal_error

\* Mutant: entries that are no Result are left out of the fold.
summarize_skips_missing(mode, results) ==
    IF mode = all_ THEN get_maximum_severity(SeveritiesOf(results))
    ELSE IF mode = any_ THEN get_minimum_severity(SeveritiesOf(results))
    ELSE internal_error

\* Mutant: a mode that is not any_ is taken for all_.
summarize_defaults_to_all(mode, results) ==
    IF \E i \in 1..Len(results) : results[i].type \in {"None", "Exception"}
    THEN error
    ELSE IF mode = any_ THEN get_minimum_severity(SeveritiesOf(results))
    ELSE get_maximum_severity(SeveritiesOf(results))

_summarize_result_severity(mode, results) ==
    IF \E i \in 1..Len(results) : results[i].type \in {"None", "Exception"}
    THEN error
    ELSE IF mode = all_ THEN get_maximum_severity(SeveritiesOf(results))
    ELSE IF mode = any_ THEN get_minimum_severity(SeveritiesOf(results))
    ELSE internal_error

----------------------------------------------------------------------------
(* The configuration tree: ConfigurationGroup, DeviceConfiguration,        *)
(* PVConfiguration, ToolConfiguration.  A dict (by_attr, by_pv) is the     *)
(* sequence of its <<key, list>> items in insertion order.                 *)

ConfigurationGroup(mode, configs) ==
    [type |-> "ConfigurationGroup", mode |-> mode, configs |-> configs]

DeviceConfiguration(devices, by_attr, shared) ==
    [type |-> "DeviceConfiguration", devices |-> devices,
     by_attr |-> by_attr, shared |-> shared]

PVConfiguration(by_pv, shared) ==
    [type |-> "PVConfiguration", by_pv |-> by_pv, shared |-> shared]

ToolConfiguration(tool, by_attr, shared) ==
    [type |-> "ToolConfiguration", tool |-> tool,
     by_attr |-> by_attr, shared |-> shared]

\* check.Comparison: the two policy fields the leaves read.
Comparison(name, if_disconnected, severity_on_failure) ==
    [name |-> name, if_disconnected |-> if_disconnected,
     severity_on_failure |-> severity_on_failure]

\* An exception object: its class and what it is about.
Exception(class, about) == [type |-> "Exception", class |-> class, about |-> about]

IsException(x) == x.type = "Exception"

IsNotException(x) == x.type # "Exception"

\* A parent reference: the PreparedFile, a prepared node (by its place in the
\* configuration tree), or None.
FileRef == [kind |-> "PreparedFile", path |-> <<>>]
NodeRef(path) == [kind |-> "node", path |-> path]
NoParent == [kind |-> "None", path |-> <<>>]

SeqsUpTo(S, n) == UNION {[1..k -> S] : k \in 0..n}

\* The number of <<key, comparison>> pairs of a dict and a shared list.
RECURSIVE SumOfLens(_, _)
SumOfLens(items, shared) ==
    IF items = <<>> THEN 0
    ELSE Len(Head(items)[2]) + Len(shared) + SumOfLens(Tail(items), shared)

RECURSIVE Flatten(_)
Flatten(ss) == IF ss = <<>> THEN <<>> ELSE Head(ss) \o Flatten(Tail(ss))

----------------------------------------------------------------------------
(* Binding one leaf: PreparedSignalComparison.from_device / .from_pvname   *)
(* and PreparedToolComparison.from_tool.  Each returns the leaf, or the    *)
(* exception it raises.                                                    *)

\* A DataCache object: which object it is, and its signals registry, given
\* by the PV names cache.signals[pvname] yields a signal for.
DataCache(id, signals) == [id |-> id, signals |-> signals]

PreparedSignalComparison_from_device(device, attr, comparison, parent, cache, e) ==
    IF <<device, attr>> \notin e.attrs
    THEN Exception("AttributeError", <<device, attr>>)
    ELSE [type |-> "PreparedSignalComparison",
          identifier |-> <<device, attr>>,
          comparison |-> comparison,
          device |-> <<device>>,
          signal |-> <<device, attr>>,
          parent |-> parent,
          cache |-> cache]

\* PreparedSignalComparison.from_pvname: signal=cache.signals[pvname] is
\* looked up in the registry of the cache handed in.
PreparedSignalComparison_from_pvname(pvname, comparison, parent, cache, e) ==
    IF pvname \notin cache.signals
    THEN Exception("SignalError", <<pvname>>)
    ELSE [type |-> "PreparedSignalComparison",
          identifier |-> <<pvname>>,
          comparison |-> comparison,
          device |-> <<>>,
          signal |-> <<pvname>>,
          parent |-> parent,
          cache |-> cache]

PreparedToolComparison_from_tool(tool, result_key, comparison, parent, cache, e) ==
    IF result_key \notin e.keys
    THEN Exception("ValueError", <<result_key>>)
    ELSE [type |-> "PreparedToolComparison",
          identifier |-> <<result_key>>,
          comparison |-> comparison,
          tool |-> tool,
          parent |-> parent,
          cache |-> cache]

----------------------------------------------------------------------------
(* Prepared*Configuration.from_config                                      *)

FailedConfiguration(parent, cfg, reason, exception) ==
    [type |-> "FailedConfiguration", parent |-> parent, config |-> cfg,
     reason |-> reason, exception |-> exception]

\* The index of the first device name happi cannot resolve, 0 when all resolve.
FirstUnresolved(devices, e) ==
    IF \A i \in 1..Len(devices) : devices[i] \in e.happi THEN 0
    ELSE CHOOSE i \in 1..Len(devices) :
            /\ devices[i] \notin e.happi
            /\ \A j \in 1..(i - 1) : devices[j] \in e.happi

\* for attr, comparisons in by_attr.items(): for comparison in comparisons + shared
\* yields <<attr, comparison>> in loop order.
EachComparison(items, shared) ==
    Flatten([a \in 1..Len(items) |->
        LET both == items[a][2] \o shared
        IN  [c \in 1..Len(both) |-> <<items[a][1], both[c]>>]])

\* Mutant: an unresolvable device is skipped and the node is prepared with
\* the devices that did resolve.
from_config_skips_unresolved(cfg, parent, cache, path, e) ==
    LET devices == SelectSeq(cfg.devices, LAMBDA d : d \in e.happi)
        bound == Flatten([d \in 1..Len(devices) |->
            LET each == EachComparison(cfg.by_attr, cfg.shared)
            IN  [k \in 1..Len(each) |->
                    PreparedSignalComparison_from_device(
                        devices[d], each[k][1], each[k][2], NodeRef(path), cache, e)]])
    IN  [type |-> "PreparedDeviceConfiguration",
         path |-> path,
         config |-> cfg,
         devices |-> devices,
         cache |-> cache,
         parent |-> parent,
         comparisons |-> SelectSeq(bound, IsNotException),
         prepare_failures |-> SelectSeq(bound, IsException)]

\* The leaves bound before the first binding exception, and that exception.
UpToFirstException(bound) ==
    IF \A i \in 1..Len(bound) : IsNotException(bound[i]) THEN bound
    ELSE SubSeq(bound, 1,
            CHOOSE i \in 1..Len(bound) :
                /\ IsException(bound[i])
                /\ \A j \in 1..(i - 1) : IsNotException(bound[j]))

\* Mutant: the first binding exception ends the binding of the node's leaves.
from_config_stops_at_exception(cfg, parent, cache, path, e) ==
    LET bad == FirstUnresolved(cfg.devices, e)
        devices == cfg.devices
        bound == UpToFirstException(Flatten([d \in 1..Len(devices) |->
            LET each == EachComparison(cfg.by_attr, cfg.shared)
            IN  [k \in 1..Len(each) |->
                    PreparedSignalComparison_from_device(
                        devices[d], each[k][1], each[k][2], NodeRef(path), cache, e)]]))
    IN  IF bad # 0
        THEN FailedConfiguration(
                parent, cfg,
                Result(error, <<"Failed to load happi device", cfg.devices[bad]>>),
                Exception("happi", <<cfg.devices[bad]>>))
        ELSE [type |-> "PreparedDeviceConfiguration",
              path |-> path,
              config |-> cfg,
              devices |-> devices,
              cache |-> cache,
              parent |-> parent,
              comparisons |-> SelectSeq(bound, IsNotException),
              prepare_failures |-> SelectSeq(bound, IsException)]

PreparedDeviceConfiguration_from_config(cfg, parent, cache, path, e) ==
    LET bad == FirstUnresolved(cfg.devices, e)
        devices == cfg.devices
        bound == Flatten([d \in 1..Len(devices) |->
            LET each == EachComparison(cfg.by_attr, cfg.shared)
            IN  [k \in 1..Len(each) |->
                    PreparedSignalComparison_from_device(
                        devices[d], each[k][1], each[k][2], NodeRef(path), cache, e)]])
    IN  IF bad # 0
        THEN FailedConfiguration(
                parent, cfg,
                Result(error, <<"Failed to load happi device", cfg.devices[bad]>>),
                Exception("happi", <<cfg.devices[bad]>>))
        ELSE [type |-> "PreparedDeviceConfiguration",
              path |-> path,
              config |-> cfg,
              devices |-> devices,
              cache |-> cache,
              parent |-> parent,
              comparisons |-> SelectSeq(bound, IsNotException),
              prepare_failures |-> SelectSeq(bound, IsException)]

PreparedPVConfiguration_from_config(cfg, parent, cache, path, e) ==
    LET each == EachComparison(cfg.by_pv, cfg.shared)
        bound == [k \in 1..Len(each) |->
            PreparedSignalComparison_from_pvname(
                each[k][1], each[k][2], NodeRef(path), cache, e)]
    IN  [type |-> "PreparedPVConfiguration",
         path |-> path,
         config |-> cfg,
         cache |-> cache,
         parent |-> parent,
         comparisons |-> SelectSeq(bound, IsNotException),
         prepare_failures |-> SelectSeq(bound, IsException)]

PreparedToolConfiguration_from_config(cfg, parent, cache, path, e) ==
    LET each == EachComparison(cfg.by_attr, cfg.shared)
        bound == [k \in 1..Len(each) |->
            PreparedToolComparison_from_tool(
                cfg.tool, each[k][1], each[k][2], NodeRef(path), cache, e)]
    IN  [type |-> "PreparedToolConfiguration",
         path |-> path,
         config |-> cfg,
         cache |-> cache,
         parent |-> parent,
         comparisons |-> SelectSeq(bound, IsNotException),
         prepare_failures |-> SelectSeq(bound, IsException)]

IsFailedConfiguration(x) == x.type = "FailedConfiguration"

IsNotFailedConfiguration(x) == x.type # "FailedConfiguration"

\* PreparedConfiguration.from_config dispatches on the configuration's class;
\* PreparedGroup.from_group prepares every child in turn and files it under
\* prepare_failures or configs.
RECURSIVE PreparedConfiguration_from_config(_, _, _, _, _)
RECURSIVE PreparedGroup_from_group(_, _, _, _, _)

\* The children up to and including the first that failed to prepare.
UpToFirstFailed(children) ==
    IF \A i \in 1..Len(children) : IsNotFailedConfiguration(children[i]) THEN children
    ELSE SubSeq(children, 1,
            CHOOSE i \in 1..Len(children) :
                /\ IsFailedConfiguration(children[i])
                /\ \A j \in 1..(i - 1) : IsNotFailedConfiguration(children[j]))

\* Mutant: a child that fails to prepare ends the loop over the children.
from_group_stops_at_failure(group, parent, cache, path, e) ==
    LET children == UpToFirstFailed([i \in 1..Len(group.configs) |->
            PreparedConfiguration_from_config(
                group.configs[i], NodeRef(path), cache, Append(path, i), e)])
    IN  [type |-> "PreparedGroup",
         path |-> path,
         cache |-> cache,
         config |-> group,
         parent |-> parent,
         configs |-> SelectSeq(children, IsNotFailedConfiguration),
         prepare_failures |-> SelectSeq(children, IsFailedConfiguration)]

\* Mutant: the group does not hand its cache on; each child makes one.
from_group_keeps_cache_to_itself(group, parent, cache, path, e) ==
    LET children == [i \in 1..Len(group.configs) |->
            PreparedConfiguration_from_config(
                group.configs[i], NodeRef(path),
                DataCache(<<"DataCache", 0>>, cache.signals), Append(path, i), e)]
    IN  [type |-> "PreparedGroup",
         path |-> path,
         cache |-> cache,
         config |-> group,
         parent |-> parent,
         configs |-> SelectSeq(children, IsNotFailedConfiguration),
         prepare_failures |-> SelectSeq(children, IsFailedConfiguration)]

PreparedGroup_from_group(group, parent, cache, path, e) ==
    LET children == [i \in 1..Len(group.configs) |->
            PreparedConfiguration_from_config(
                group.configs[i], NodeRef(path), cache, Append(path, i), e)]
    IN  [type |-> "PreparedGroup",
         path |-> path,
         cache |-> cache,
         config |-> group,
         parent |-> parent,
         configs |-> SelectSeq(children, IsNotFailedConfiguration),
         prepare_failures |-> SelectSeq(children, IsFailedConfiguration)]

PreparedConfiguration_from_config(cfg, parent, cache, path, e) ==
    IF cfg.type = "PVConfiguration"
    THEN PreparedPVConfiguration_from_config(cfg, parent, cache, path, e)
    ELSE IF cfg.type = "ToolConfiguration"
    THEN PreparedToolConfiguration_from_config(cfg, parent, cache, path, e)
    ELSE IF cfg.type = "DeviceConfiguration"
    THEN PreparedDeviceConfiguration_from_config(cfg, parent, cache, path, e)
    ELSE PreparedGroup_from_group(cfg, parent, cache, path, e)

----------------------------------------------------------------------------
(* The names and comparisons the configurations are drawn from, and what   *)
(* the collaborators answer about them.                                    *)

Devices == {"d1", "d2"}
Attrs == {"a1", "a2"}
PVs == {"pv1", "pv2"}
Keys == {"k1", "k2"}
Ping == "Ping"

cA == Comparison("cA", warning, error)
cB == Comparison("cB", error, warning)
cC == Comparison("cC", internal_error, success)

Comparisons == {cA, cB}

\* A dict with at most n keys: its items in insertion order, keys distinct.
Dicts(K, V, n) ==
    {d \in SeqsUpTo(K \X V, n) :
        \A i, j \in 1..Len(d) : d[i][1] = d[j][1] => i = j}

DictKeys(d) == {d[i][1] : i \in 1..Len(d)}

Range(seq) == {seq[i] : i \in 1..Len(seq)}

CmpLists == SeqsUpTo(Comparisons, MaxCmps)

DeviceConfigs ==
    {DeviceConfiguration(ds, by, sh) :
        ds \in SeqsUpTo(Devices, MaxDevs),
        by \in Dicts(Attrs, CmpLists, MaxKeys),
        sh \in CmpLists}

PVConfigs ==
    {PVConfiguration(by, sh) : by \in Dicts(PVs, CmpLists, MaxKeys), sh \in CmpLists}

ToolConfigs ==
    {ToolConfiguration(Ping, by, sh) :
        by \in Dicts(Keys, CmpLists, MaxKeys), sh \in CmpLists}

\* The children a group prepared on its own is built from.
dev1 == DeviceConfiguration(<<"d1">>, <<<<"a1", <<cA>>>>>>, <<>>)
dev2 == DeviceConfiguration(<<"d2", "d1">>, <<<<"a1", <<>>>>>>, <<cB>>)
pvc1 == PVConfiguration(<<<<"pv1", <<cA>>>>>>, <<>>)
tool1 == ToolConfiguration(Ping, <<<<"k1", <<cB>>>>>>, <<>>)

SmallTerminals == {dev1, dev2, pvc1, tool1}

SubGroups ==
    {ConfigurationGroup(any_, <<dev1>>),
     ConfigurationGroup(all_, <<dev2, pvc1>>),
     ConfigurationGroup(all_, <<>>)}

GroupConfigs ==
    {ConfigurationGroup(m, cs) :
        m \in GroupResultMode,
        cs \in SeqsUpTo(SmallTerminals \cup SubGroups, MaxChildren)}

\* What a configuration names: only their resolution can matter to it.
RECURSIVE DevicesIn(_)
DevicesIn(cfg) ==
    IF cfg.type = "DeviceConfiguration" THEN Range(cfg.devices)
    ELSE IF cfg.type = "ConfigurationGroup"
    THEN UNION {DevicesIn(cfg.configs[i]) : i \in 1..Len(cfg.configs)}
    ELSE {}

RECURSIVE AttrsIn(_)
AttrsIn(cfg) ==
    IF cfg.type = "DeviceConfiguration"
    THEN Range(cfg.devices) \X DictKeys(cfg.by_attr)
    ELSE IF cfg.type = "ConfigurationGroup"
    THEN UNION {AttrsIn(cfg.configs[i]) : i \in 1..Len(cfg.configs)}
    ELSE {}

RECURSIVE PVsIn(_)
PVsIn(cfg) ==
    IF cfg.type = "PVConfiguration" THEN DictKeys(cfg.by_pv)
    ELSE IF cfg.type = "ConfigurationGroup"
    THEN UNION {PVsIn(cfg.configs[i]) : i \in 1..Len(cfg.configs)}
    ELSE {}

RECURSIVE KeysIn(_)
KeysIn(cfg) ==
    IF cfg.type = "ToolConfiguration" THEN DictKeys(cfg.by_attr)
    ELSE IF cfg.type = "ConfigurationGroup"
    THEN UNION {KeysIn(cfg.configs[i]) : i \in 1..Len(cfg.configs)}
    ELSE {}

\* The collaborators' answers: the devices util.get_happi_device_by_name
\* resolves, the (device, attribute) pairs getattr finds, the PVs
\* cache.signals yields a signal for, the keys tool.check_result_key accepts.
\* Names the configuration does not mention are left resolvable.
Envs(cfg) ==
    {[happi |-> Devices \ h, attrs |-> (Devices \X Attrs) \ a,
      pvs |-> PVs \ p, keys |-> Keys \ k] :
        h \in SUBSET DevicesIn(cfg), a \in SUBSET AttrsIn(cfg),
        p \in SUBSET PVsIn(cfg), k \in SUBSET KeysIn(cfg)}

AllResolve ==
    [happi |-> Devices, attrs |-> Devices \X Attrs, pvs |-> PVs, keys |-> Keys]

\* The cache of a session: its registry is what the collaborators answer.
TheCache(e) == DataCache("cache", e.pvs)

----------------------------------------------------------------------------
(* Preparation on its own: Init draws a configuration and the              *)
(* collaborators' answers, FromConfig applies                              *)
(* PreparedConfiguration.from_config to them.                              *)

SummarizeIdle == sr_mode = all_ /\ sr_results = <<>> /\ sr_out = <<>>

CompareIdle ==
    /\ result = <<>>
    /\ leaf = <<>>
    /\ unset = {}
    /\ stack = <<>>
    /\ inflight = {}
    /\ returned = {}
    /\ ret = <<>>
    /\ pass = 1

WalkIdle == gens = <<>> /\ report = <<>>

\* No fill_cache call, and a cache that answers each request on its own.
FillIdle ==
    /\ source = <<>>
    /\ cache_data = <<>>
    /\ fetches = <<>>
    /\ tasks = <<>>
    /\ fill = <<>>

PrepareInit ==
    /\ config \in DeviceConfigs \cup PVConfigs \cup ToolConfigs \cup GroupConfigs
    /\ env \in Envs(config)
    /\ prepared = <<>>
    /\ SummarizeIdle
    /\ CompareIdle
    /\ WalkIdle
    /\ FillIdle

FromConfig ==
    /\ prepared = <<>>
    /\ prepared' =
        <<PreparedConfiguration_from_config(config, NoParent, TheCache(env), <<>>, env)>>
    /\ UNCHANGED <<config, env, sr_vars, run_vars, walk_vars, fill_vars>>

PrepareNext == FromConfig

SpecPrepare == PrepareInit /\ [][PrepareNext]_vars

----------------------------------------------------------------------------
(* The fold on its own: Init draws a mode and a results list, Summarize    *)
(* applies _summarize_result_severity to them.                             *)

ResultEntries == {Result(s, <<>>) : s \in Severity} \cup {NoneEntry, ExceptionEntry}

SummarizeInit ==
    /\ sr_mode \in GroupResultMode \cup {other_mode}
    /\ sr_results \in SeqsUpTo(ResultEntries, MaxLen)
    /\ sr_out = <<>>
    /\ config = ConfigurationGroup(all_, <<>>)
    /\ env = AllResolve
    /\ prepared = <<>>
    /\ CompareIdle
    /\ WalkIdle
    /\ FillIdle

Summarize ==
    /\ sr_out = <<>>
    /\ sr_out' = <<_summarize_result_severity(sr_mode, sr_results)>>
    /\ UNCHANGED <<sr_mode, sr_results, prep_vars, run_vars, walk_vars, fill_vars>>

SummarizeNext == Summarize

SpecSummarize == SummarizeInit /\ [][SummarizeNext]_vars

----------------------------------------------------------------------------
(* PreparedFile.from_config                                                *)

PreparedFile_from_config(file_root, cache, e) ==
    [PreparedGroup_from_group(file_root, FileRef, cache, <<>>, e)
        EXCEPT !.parent = NodeRef(<<>>)]

\* The prepared nodes of a tree, by path, and its leaves, by <<path, index>>.
RECURSIVE NodePaths(_)
NodePaths(p) ==
    IF p.type = "PreparedGroup"
    THEN {p.path} \cup UNION {NodePaths(p.configs[k]) : k \in 1..Len(p.configs)}
    ELSE {p.path}

RECURSIVE LeafIds(_)
LeafIds(p) ==
    IF p.type = "PreparedGroup"
    THEN UNION {LeafIds(p.configs[k]) : k \in 1..Len(p.configs)}
    ELSE {<<p.path, k>> : k \in 1..Len(p.comparisons)}

RECURSIVE LeafAt(_, _)
LeafAt(p, id) ==
    IF p.type = "PreparedGroup"
    THEN LeafAt(CHOOSE c \in Range(p.configs) : id \in LeafIds(c), id)
    ELSE p.comparisons[id[2]]

----------------------------------------------------------------------------
(* Acquired data and the outcomes of a fetch and of the predicate.         *)

Value(v) == [type |-> "value", v |-> v]

\* A tool's result bundle: the keys it holds and their values.
Bundle(items) == [type |-> "bundle", items |-> items]

Returns(data) == [type |-> "return", data |-> data]

TimeoutClasses == {"TimeoutError", "asyncio.TimeoutError", "ConnectionTimeoutError"}

OtherClasses == {"RuntimeError"}

\* What cache.get_signal_data can do: return a value (the empty string, a
\* falsy value that is not None) or None, or raise.
SignalOutcomes ==
    {Returns(Value("")), Returns(NoneEntry)}
    \cup {Exception(c, <<>>) : c \in TimeoutClasses \cup OtherClasses}

\* What cache.get_tool_data can do: return a bundle (possibly empty) or None,
\* or raise.
ToolOutcomes ==
    {Returns(Bundle([k \in S |-> "1"])) : S \in {{}, Keys}}
    \cup {Returns(NoneEntry)}
    \cup {Exception(c, <<>>) : c \in TimeoutClasses \cup OtherClasses}

\* What comparison.compare(value, identifier) can do: return a Result or raise.
PredicateOutcomes ==
    {Result(s, <<"compared">>) : s \in {success, error}}
    \cup {Exception("TypeError", <<>>)}

\* tools.get_result_value_by_key(data, key)
get_result_value_by_key(data, key) ==
    IF data.type = "bundle" /\ key \in DOMAIN data.items
    THEN Value(data.items[key])
    ELSE Exception("KeyError", <<key>>)

----------------------------------------------------------------------------
(* PreparedComparison.compare and what it calls.  A leaf's state holds its *)
(* result and data fields and a record of its last run: how often it ran,  *)
(* what the fetch did, what the predicate was called with and did (<<>> if *)
(* it was not called) and whether the result key was looked up.            *)

\* An object that has no attribute of the name read.
NoAttribute == [type |-> "no such attribute"]

\* The leaf as prepare makes it: result is None; PreparedSignalComparison
\* declares data with the default None, PreparedToolComparison declares no
\* data field, so the tool leaf has no such attribute until compare()
\* assigns it.
NewLeaf(l) ==
    [result |-> NoneEntry,
     data |-> IF l.type = "PreparedSignalComparison" THEN NoneEntry ELSE NoAttribute,
     runs |-> 0, fetch |-> NoneEntry, predicate |-> <<>>, lookup |-> FALSE]

\* PreparedSignalComparison.get_data_async / PreparedToolComparison.get_data_async
get_data_async(l, signal_unset, o) ==
    IF l.type = "PreparedSignalComparison" /\ signal_unset
    THEN Exception("ValueError", <<"Signal instance unset">>)
    ELSE o

PreparedSignalComparison__compare(l, data, po) ==
    IF data = NoneEntry
    THEN [out |-> Result(l.comparison.if_disconnected, <<"No data available for signal">>),
          predicate |-> <<>>, lookup |-> FALSE]
    ELSE [out |-> po, predicate |-> <<[arg |-> data, did |-> po]>>, lookup |-> FALSE]

\* Mutant: the KeyError of the lookup is not caught in _compare.
tool_compare_lets_KeyError_out(l, data, po) ==
    LET value == get_result_value_by_key(data, l.identifier[1])
    IN  IF IsException(value)
        THEN [out |-> value, predicate |-> <<>>, lookup |-> TRUE]
        ELSE [out |-> po, predicate |-> <<[arg |-> value, did |-> po]>>, lookup |-> TRUE]

PreparedToolComparison__compare(l, data, po) ==
    LET value == get_result_value_by_key(data, l.identifier[1])
    IN  IF IsException(value)
        THEN [out |-> Result(l.comparison.severity_on_failure,
                             <<"Provided key is invalid for tool result">>),
              predicate |-> <<>>, lookup |-> TRUE]
        ELSE [out |-> po, predicate |-> <<[arg |-> value, did |-> po]>>, lookup |-> TRUE]

_compare(l, data, po) ==
    IF l.type = "PreparedSignalComparison"
    THEN PreparedSignalComparison__compare(l, data, po)
    ELSE PreparedToolComparison__compare(l, data, po)

\* Mutant: only the builtin TimeoutError is taken for a disconnect.
compare_catches_only_TimeoutError(l, st, signal_unset, o, po) ==
    LET got == get_data_async(l, signal_unset, o)
    IN  IF IsException(got) /\ got.class = "TimeoutError"
        THEN [st EXCEPT
                !.result = Result(l.comparison.if_disconnected,
                                  <<"Unable to retrieve data for comparison">>),
                !.runs = @ + 1, !.fetch = got, !.predicate = <<>>, !.lookup = FALSE]
        ELSE IF IsException(got)
        THEN [st EXCEPT
                !.result = Result(internal_error, <<"Getting data raised", got.class>>),
                !.runs = @ + 1, !.fetch = got, !.predicate = <<>>, !.lookup = FALSE]
        ELSE LET c == _compare(l, got.data, po)
             IN  [result |-> IF IsException(c.out)
                             THEN Result(internal_error, <<"Failed to run comparison", c.out.class>>)
                             ELSE c.out,
                  data |-> got.data,
                  runs |-> st.runs + 1,
                  fetch |-> got,
                  predicate |-> c.predicate,
                  lookup |-> c.lookup]

\* Mutant: _compare is awaited outside any try, so an exception of the
\* predicate leaves compare() before self.result is assigned.
compare_lets_predicate_raise(l, st, signal_unset, o, po) ==
    LET got == get_data_async(l, signal_unset, o)
    IN  IF IsException(got) /\ got.class \in TimeoutClasses
        THEN [st EXCEPT
                !.result = Result(l.comparison.if_disconnected,
                                  <<"Unable to retrieve data for comparison">>),
                !.runs = @ + 1, !.fetch = got, !.predicate = <<>>, !.lookup = FALSE]
        ELSE IF IsException(got)
        THEN [st EXCEPT
                !.result = Result(internal_error, <<"Getting data raised", got.class>>),
                !.runs = @ + 1, !.fetch = got, !.predicate = <<>>, !.lookup = FALSE]
        ELSE LET c == _compare(l, got.data, po)
             IN  [result |-> IF IsException(c.out) THEN st.result ELSE c.out,
                  data |-> got.data,
                  runs |-> st.runs + 1,
                  fetch |-> got,
                  predicate |-> c.predicate,
                  lookup |-> c.lookup]

\* Mutant: an exception of get_data_async that is no timeout is not caught.
compare_lets_fetch_raise(l, st, signal_unset, o, po) ==
    LET got == get_data_async(l, signal_unset, o)
    IN  IF IsException(got) /\ got.class \in TimeoutClasses
        THEN [st EXCEPT
                !.result = Result(l.comparison.if_disconnected,
                                  <<"Unable to retrieve data for comparison">>),
                !.runs = @ + 1, !.fetch = got, !.predicate = <<>>, !.lookup = FALSE]
        ELSE IF IsException(got)
        THEN [st EXCEPT
                !.runs = @ + 1, !.fetch = got, !.predicate = <<>>, !.lookup = FALSE]
        ELSE LET c == _compare(l, got.data, po)
             IN  [result |-> IF IsException(c.out)
                             THEN Result(internal_error, <<"Failed to run comparison", c.out.class>>)
                             ELSE c.out,
                  data |-> got.data,
                  runs |-> st.runs + 1,
                  fetch |-> got,
                  predicate |-> c.predicate,
                  lookup |-> c.lookup]

\* The leaf's state after compare(): o is what the cache does, po what the
\* predicate does if it is called.
PreparedComparison_compare(l, st, signal_unset, o, po) ==
    LET got == get_data_async(l, signal_unset, o)
    IN  IF IsException(got) /\ got.class \in TimeoutClasses
        THEN [st EXCEPT
                !.result = Result(l.comparison.if_disconnected,
                                  <<"Unable to retrieve data for comparison">>),
                !.runs = @ + 1, !.fetch = got, !.predicate = <<>>, !.lookup = FALSE]
        ELSE IF IsException(got)
        THEN [st EXCEPT
                !.result = Result(internal_error, <<"Getting data raised", got.class>>),
                !.runs = @ + 1, !.fetch = got, !.predicate = <<>>, !.lookup = FALSE]
        ELSE LET c == _compare(l, got.data, po)
             IN  [result |-> IF IsException(c.out)
                             THEN Result(internal_error, <<"Failed to run comparison", c.out.class>>)
                             ELSE c.out,
                  data |-> got.data,
                  runs |-> st.runs + 1,
                  fetch |-> got,
                  predicate |-> c.predicate,
                  lookup |-> c.lookup]

----------------------------------------------------------------------------
(* PreparedConfiguration.compare and PreparedGroup.compare: the result     *)
(* once the children's results are gathered.                               *)

\* Mutant: the node's own prepare_failures are not looked at.
configuration_result_ignores_failures(node, results) ==
    Result(_summarize_result_severity(all_, results), <<>>)

\* Mutant: the leaves are folded with the ANY rule.
configuration_result_folds_with_any(node, results) ==
    IF node.prepare_failures # <<>>
    THEN Result(error, <<"At least one configuration failed to initialize">>)
    ELSE Result(_summarize_result_severity(any_, results), <<>>)

PreparedConfiguration_result(node, results) ==
    IF node.prepare_failures # <<>>
    THEN Result(error, <<"At least one configuration failed to initialize">>)
    ELSE Result(_summarize_result_severity(all_, results), <<>>)

\* Mutant: the group's own prepare_failures are not looked at.
group_result_ignores_failures(node, results) ==
    Result(_summarize_result_severity(node.config.mode, results), <<>>)

\* Mutant: the group folds with the ALL rule whatever its mode.
group_result_always_all(node, results) ==
    IF node.prepare_failures # <<>>
    THEN Result(error, <<"At least one configuration failed to initialize">>)
    ELSE Result(_summarize_result_severity(all_, results), <<>>)

PreparedGroup_result(node, results) ==
    IF node.prepare_failures # <<>>
    THEN Result(error, <<"At least one configuration failed to initialize">>)
    ELSE Result(_summarize_result_severity(node.config.mode, results), <<>>)

----------------------------------------------------------------------------
(* Execution: PreparedFile.compare() on a prepared file.  Every compare()  *)
(* awaits its children one after the other, so the calls in progress form  *)
(* a stack; a frame holds the node, the index of the child it is at and    *)
(* the results gathered so far.                                            *)

Frame(node) == [node |-> node, idx |-> 1, results |-> <<>>]

Top == stack[Len(stack)]

Pop == SubSeq(stack, 1, Len(stack) - 1)

\* The stack once the innermost call has returned r to its caller.
ReturnTo(r) ==
    IF Len(stack) = 1 THEN <<>>
    ELSE [Pop EXCEPT ![Len(stack) - 1] =
            [@ EXCEPT !.results = Append(@, r), !.idx = @ + 1]]

\* The files executed: a root group of up to MaxNodes different children.
tool2 == ToolConfiguration(Ping, <<<<"k1", <<cA>>>>, <<"k2", <<cB>>>>>>, <<>>)
pvc2 == PVConfiguration(<<<<"pv1", <<cC>>>>>>, <<>>)

RunChildren ==
    {dev1, pvc2, tool2, ConfigurationGroup(any_, <<dev1, pvc2>>)}

RunFiles ==
    {ConfigurationGroup(m, cs) :
        m \in GroupResultMode,
        cs \in {c \in SeqsUpTo(RunChildren, MaxNodes) \ {<<>>} :
                  \A i, j \in DOMAIN c : c[i] = c[j] => i = j}}

\* A prepared file of at most MaxLeaves leaves made from one of the files,
\* before its first compare().
RunFrom(files) ==
    /\ config \in files
    /\ env \in Envs(config)
    /\ prepared = <<PreparedFile_from_config(config, TheCache(env), env)>>
    /\ Cardinality(LeafIds(prepared[1])) <= MaxLeaves
    /\ result = [path \in NodePaths(prepared[1]) |-> DefaultResult]
    /\ leaf = [id \in LeafIds(prepared[1]) |-> NewLeaf(LeafAt(prepared[1], id))]
    /\ unset \in {{}} \cup
        {{id} : id \in {i \in LeafIds(prepared[1]) :
                    LeafAt(prepared[1], i).type = "PreparedSignalComparison"}}
    /\ stack = <<>>
    /\ inflight = {}
    /\ returned = {}
    /\ ret = <<>>
    /\ pass = 1
    /\ SummarizeIdle
    /\ WalkIdle

Init == RunFrom(RunFiles) /\ FillIdle

----------------------------------------------------------------------------
(* The data cache.  A request is keyed by what get_data_async hands to the *)
(* cache: the signal and the reduction settings of the comparison, or the  *)
(* tool.  The first request of a key starts the one underlying fetch; a    *)
(* later request of the key joins it or finds its outcome.                 *)

\* check.Comparison.reduce_period, reduce_method and string: the defaults
\* (None, average, None) unless the comparison sets them.
ReduceOf(c) ==
    IF "reduce_period" \in DOMAIN c
    THEN <<c.reduce_period, c.reduce_method, c.string>>
    ELSE <<"None", "average", "None">>

\* The comparison with its reduction settings set.
WithReduce(c, reduce_period, reduce_method, string) ==
    [f \in DOMAIN c \cup {"reduce_period", "reduce_method", "string"} |->
        CASE f = "reduce_period" -> reduce_period
          [] f = "reduce_method" -> reduce_method
          [] f = "string" -> string
          [] OTHER -> c[f]]

\* Mutant: string is passed as the comparison has it, None or False.
key_passes_string_unset(l) ==
    IF l.type = "PreparedSignalComparison"
    THEN <<"signal", l.signal, ReduceOf(l.comparison)>>
    ELSE <<"tool", <<l.tool>>, <<>>>>

\* The arguments of cache.get_signal_data / cache.get_tool_data in
\* get_data_async: string is passed as (comparison.string or False).
KeyOf(l) ==
    IF l.type = "PreparedSignalComparison"
    THEN LET r == ReduceOf(l.comparison)
         IN  <<"signal", l.signal,
               <<r[1], r[2], IF r[3] = "True" THEN "True" ELSE "False">>>>
    ELSE <<"tool", <<l.tool>>, <<>>>>

Put(f, k, v) == [x \in DOMAIN f \cup {k} |-> IF x = k THEN v ELSE f[x]]

\* DataCache.get_signal_data / get_tool_data up to its await.
DataCache_request(key) ==
    IF key \in DOMAIN cache_data
    THEN UNCHANGED <<cache_data, fetches>>
    ELSE /\ cache_data' = Put(cache_data, key, "pending")
         /\ fetches' = Put(fetches, key, 1)

\* No fill_cache call is running and its tasks, if any, have been awaited.
FillQuiet ==
    /\ fill # <<>> => fill[1].state # "running"
    /\ \A id \in DOMAIN tasks : tasks[id].pc = "done"

\* Mutant: compare() empties the root's prepare_failures before it runs.
file_compare_drops_failures ==
    /\ stack = <<>>
    /\ ret = <<>>
    /\ FillQuiet
    /\ prepared' = <<[prepared[1] EXCEPT !.prepare_failures = <<>>]>>
    /\ stack' = <<Frame(prepared'[1])>>
    /\ UNCHANGED <<sr_vars, config, env, walk_vars, fill_vars, pass, result, leaf, unset, inflight, returned, ret>>

\* PreparedFile.compare: await self.root.compare()
PreparedFile_compare ==
    /\ stack = <<>>
    /\ ret = <<>>
    /\ FillQuiet
    /\ stack' = <<Frame(prepared[1])>>
    /\ UNCHANGED <<sr_vars, prep_vars, walk_vars, fill_vars, pass, result, leaf, unset, inflight, returned, ret>>

\* PreparedGroup.compare: results.append(await config.compare())
PreparedGroup_compare_child ==
    /\ stack # <<>>
    /\ Top.node.type = "PreparedGroup"
    /\ Top.idx <= Len(Top.node.configs)
    /\ stack' = Append(stack, Frame(Top.node.configs[Top.idx]))
    /\ UNCHANGED <<sr_vars, prep_vars, walk_vars, fill_vars, pass, result, leaf, unset, inflight, returned, ret>>

\* Mutant: the group stores and returns its result before the loop over
\* its children is over.
group_compare_returns_early ==
    /\ stack # <<>>
    /\ Top.node.type = "PreparedGroup"
    /\ LET r == PreparedGroup_result(Top.node, Top.results)
       IN  /\ result' = [result EXCEPT ![Top.node.path] = r]
           /\ stack' = ReturnTo(r)
           /\ ret' = IF Len(stack) = 1 THEN <<r>> ELSE ret
    /\ returned' = returned \cup {Top.node.path}
    /\ UNCHANGED <<sr_vars, prep_vars, walk_vars, fill_vars, pass, leaf, unset, inflight>>

\* PreparedGroup.compare: the loop is over; self.result = result; return result
PreparedGroup_compare_return ==
    /\ stack # <<>>
    /\ Top.node.type = "PreparedGroup"
    /\ Top.idx > Len(Top.node.configs)
    /\ LET r == PreparedGroup_result(Top.node, Top.results)
       IN  /\ result' = [result EXCEPT ![Top.node.path] = r]
           /\ stack' = ReturnTo(r)
           /\ ret' = IF Len(stack) = 1 THEN <<r>> ELSE ret
    /\ returned' = returned \cup {Top.node.path}
    /\ UNCHANGED <<sr_vars, prep_vars, walk_vars, fill_vars, pass, leaf, unset, inflight>>

\* Mutant: the configuration starts the compare() of all its leaves at once.
compare_begins_every_leaf ==
    /\ stack # <<>>
    /\ Top.node.type # "PreparedGroup"
    /\ Top.idx <= Len(Top.node.comparisons)
    /\ inflight = {}
    /\ inflight' = {<<Top.node.path, k>> : k \in Top.idx..Len(Top.node.comparisons)}
    /\ UNCHANGED <<sr_vars, prep_vars, walk_vars, fill_vars, pass, result, leaf, unset, stack, returned, ret>>

\* PreparedConfiguration.compare: await config.compare() of the next leaf,
\* which starts with await self.get_data_async(): the leaf whose signal is
\* set, and the tool leaf, ask the cache before the coroutine suspends.
PreparedComparison_compare_begin ==
    /\ stack # <<>>
    /\ Top.node.type # "PreparedGroup"
    /\ Top.idx <= Len(Top.node.comparisons)
    /\ inflight = {}
    /\ inflight' = {<<Top.node.path, Top.idx>>}
    /\ IF DOMAIN source = {} \/ <<Top.node.path, Top.idx>> \in unset
       THEN UNCHANGED <<cache_data, fetches>>
       ELSE DataCache_request(KeyOf(Top.node.comparisons[Top.idx]))
    /\ UNCHANGED <<sr_vars, prep_vars, walk_vars, pass, result, leaf, unset, stack, returned, ret>>
    /\ UNCHANGED <<source, tasks, fill>>

\* PreparedComparison.compare: the cache has the outcome of the key asked
\* for, get_data_async returns or raises, the rest of compare() runs and its
\* Result is appended to the caller's results.
PreparedComparison_compare_end ==
    /\ stack # <<>>
    /\ inflight = {<<Top.node.path, Top.idx>>}
    /\ \E o \in SignalOutcomes \cup ToolOutcomes, po \in PredicateOutcomes :
        LET id == <<Top.node.path, Top.idx>>
            l == Top.node.comparisons[Top.idx]
            st == PreparedComparison_compare(l, leaf[id], id \in unset, o, po)
        IN  /\ o \in (IF l.type = "PreparedSignalComparison"
                      THEN SignalOutcomes ELSE ToolOutcomes)
            /\ DOMAIN source # {} => o = source[KeyOf(l)]
            /\ (DOMAIN source # {} /\ id \notin unset) => cache_data[KeyOf(l)] = "done"
            /\ leaf' = [leaf EXCEPT ![id] = st]
            /\ stack' = [stack EXCEPT ![Len(stack)] =
                    [@ EXCEPT !.results = Append(@, st.result), !.idx = @ + 1]]
    /\ inflight' = {}
    /\ UNCHANGED <<sr_vars, prep_vars, walk_vars, fill_vars, pass, result, unset, returned, ret>>

\* Mutant: the loop over the leaves ends at the first leaf that ended in
\* internal_error, as if the leaf's fault had left the loop.
configuration_compare_stops_at_fault ==
    /\ stack # <<>>
    /\ Top.node.type # "PreparedGroup"
    /\ inflight = {}
    /\ \/ Top.idx > Len(Top.node.comparisons)
       \/ /\ Top.results # <<>>
          /\ Top.results[Len(Top.results)].severity = internal_error
    /\ LET r == PreparedConfiguration_result(Top.node, Top.results)
       IN  /\ result' = [result EXCEPT ![Top.node.path] = r]
           /\ stack' = ReturnTo(r)
    /\ returned' = returned \cup {Top.node.path}
    /\ UNCHANGED <<sr_vars, prep_vars, walk_vars, fill_vars, pass, leaf, unset, inflight, ret>>

\* PreparedConfiguration.compare: the loop is over; self.result = result;
\* return result
PreparedConfiguration_compare_return ==
    /\ stack # <<>>
    /\ Top.node.type # "PreparedGroup"
    /\ Top.idx > Len(Top.node.comparisons)
    /\ LET r == PreparedConfiguration_result(Top.node, Top.results)
       IN  /\ result' = [result EXCEPT ![Top.node.path] = r]
           /\ stack' = ReturnTo(r)
    /\ returned' = returned \cup {Top.node.path}
    /\ UNCHANGED <<sr_vars, prep_vars, walk_vars, fill_vars, pass, leaf, unset, inflight, ret>>

Next ==
    \/ PreparedFile_compare
    \/ PreparedGroup_compare_child
    \/ PreparedGroup_compare_return
    \/ PreparedComparison_compare_begin
    \/ PreparedComparison_compare_end
    \/ PreparedConfiguration_compare_return

Spec == Init /\ [][Next]_vars

\* Every compare() in progress keeps running: the event loop resumes a
\* coroutine whose await has completed.
FairSpec == Spec /\ WF_vars(Next)

----------------------------------------------------------------------------
(* C1                                                                      *)

AllResults(results) == \A i \in 1..Len(results) : IsResult(results[i])

Permutation(seq, p) == [i \in 1..Len(seq) |-> seq[p[i]]]

Bijections(n) == {p \in [1..n -> 1..n] : \A i, j \in 1..n : p[i] = p[j] => i = j}

\* C1: for a non-empty list of Result entries the returned severity is the
\* greatest severity of the list in mode ALL and the least in mode ANY
\* (success < warning < error < internal_error), and every permutation of
\* the list gives the same severity.
C1_MaxMinOrderIndependent ==
    (sr_out # <<>> /\ sr_results # <<>> /\ AllResults(sr_results)
        /\ sr_mode \in GroupResultMode)
    => /\ \E i \in 1..Len(sr_results) : sr_results[i].severity = sr_out[1]
       /\ sr_mode = all_ =>
            \A i \in 1..Len(sr_results) : sr_results[i].severity <= sr_out[1]
       /\ sr_mode = any_ =>
            \A i \in 1..Len(sr_results) : sr_results[i].severity >= sr_out[1]
       /\ \A p \in Bijections(Len(sr_results)) :
            _summarize_result_severity(sr_mode, Permutation(sr_results, p)) = sr_out[1]

\* A mixed list was folded in both modes: the maximum and the minimum differ.
C1_Witness ==
    /\ sr_out = <<error>>
    /\ sr_mode = all_
    /\ sr_results = <<Result(warning, <<>>), Result(error, <<>>), Result(success, <<>>)>>

----------------------------------------------------------------------------
(* C8                                                                      *)

\* The entries of seq at the indices in S, in order.
SubSeqAt(seq, S) ==
    LET F[i \in 0..Len(seq)] ==
            IF i = 0 THEN <<>>
            ELSE IF i \in S THEN Append(F[i - 1], seq[i]) ELSE F[i - 1]
    IN  F[Len(seq)]

PreparedTypeOf(cfg) ==
    IF cfg.type = "ConfigurationGroup" THEN "PreparedGroup"
    ELSE IF cfg.type = "DeviceConfiguration" THEN "PreparedDeviceConfiguration"
    ELSE IF cfg.type = "PVConfiguration" THEN "PreparedPVConfiguration"
    ELSE "PreparedToolConfiguration"

\* p files every child of group, in configured order, under configs (as its
\* prepared counterpart) or under prepare_failures (as a FailedConfiguration
\* of this group that keeps the child).
Mirrors(group, p) ==
    LET n == Len(group.configs)
        idx == [i \in 1..n |-> i]
    IN  /\ p.type = "PreparedGroup"
        /\ Len(p.configs) + Len(p.prepare_failures) = n
        /\ \E S \in SUBSET (1..n) :
            LET bad == SubSeqAt(idx, S)
                ok == SubSeqAt(idx, (1..n) \ S)
            IN  /\ Len(p.configs) = Len(ok)
                /\ Len(p.prepare_failures) = Len(bad)
                /\ \A k \in 1..Len(ok) :
                    /\ p.configs[k].type = PreparedTypeOf(group.configs[ok[k]])
                    /\ p.configs[k].config = group.configs[ok[k]]
                    /\ p.configs[k].path = Append(p.path, ok[k])
                /\ \A k \in 1..Len(bad) :
                    /\ p.prepare_failures[k].type = "FailedConfiguration"
                    /\ p.prepare_failures[k].config = group.configs[bad[k]]
                    /\ p.prepare_failures[k].parent = NodeRef(p.path)

\* C8: from_group is not aborted by a failing child: every child, in
\* configured order, ends in configs or in prepare_failures (a
\* FailedConfiguration whose parent is this group and whose config is the
\* child), the two lengths add up to the number of children, and each list
\* keeps the configured order; the same holds in every prepared subgroup.
C8_FromGroupKeepsEveryChild ==
    (prepared # <<>> /\ config.type = "ConfigurationGroup")
    => /\ Mirrors(config, prepared[1])
       /\ \A k \in 1..Len(prepared[1].configs) :
            prepared[1].configs[k].type = "PreparedGroup"
            => Mirrors(prepared[1].configs[k].config, prepared[1].configs[k])

\* The first child failed to prepare and the second was still prepared.
C8_Witness ==
    /\ prepared # <<>>
    /\ config.type = "ConfigurationGroup"
    /\ Len(config.configs) = 2
    /\ Len(prepared[1].prepare_failures) = 1
    /\ prepared[1].prepare_failures[1].config = config.configs[1]
    /\ Len(prepared[1].configs) = 1
    /\ prepared[1].configs[1].config = config.configs[2]

----------------------------------------------------------------------------
(* C9                                                                      *)

\* What from_config must return for cfg: for a DeviceConfiguration with an
\* unresolvable device name one FailedConfiguration of severity error that
\* carries the exception and names the first such device, and holds no leaf;
\* otherwise the prepared counterpart.
ResolutionDecides(cfg, p, e) ==
    IF cfg.type = "DeviceConfiguration"
        /\ \E i \in 1..Len(cfg.devices) : cfg.devices[i] \notin e.happi
    THEN /\ p.type = "FailedConfiguration"
         /\ p.config = cfg
         /\ p.reason.severity = error
         /\ IsException(p.exception)
         /\ "comparisons" \notin DOMAIN p
         /\ \E i \in 1..Len(cfg.devices) :
                /\ cfg.devices[i] \notin e.happi
                /\ \A j \in 1..(i - 1) : cfg.devices[j] \in e.happi
                /\ p.reason.reason = <<"Failed to load happi device", cfg.devices[i]>>
                /\ p.exception.about = <<cfg.devices[i]>>
    ELSE p.type = PreparedTypeOf(cfg)

\* C9: a DeviceConfiguration with one unresolvable device name is prepared
\* into a single FailedConfiguration (severity error, with the exception,
\* naming the first device that failed) and no leaf is bound for any of its
\* devices; with every name resolved it is prepared into a
\* PreparedDeviceConfiguration; PV and Tool configurations are never prepared
\* into a FailedConfiguration.  The same holds for the children of a group.
C9_DeviceResolutionFailsWholeNode ==
    prepared # <<>>
    => /\ ResolutionDecides(config, prepared[1], env)
       /\ config.type = "ConfigurationGroup" =>
            /\ \A k \in 1..Len(prepared[1].configs) :
                ResolutionDecides(prepared[1].configs[k].config,
                                  prepared[1].configs[k], env)
            /\ \A k \in 1..Len(prepared[1].prepare_failures) :
                ResolutionDecides(prepared[1].prepare_failures[k].config,
                                  prepared[1].prepare_failures[k], env)

\* The second of two device names did not resolve, the first did, and its
\* attributes exist: the node failed as a whole.
C9_Witness ==
    /\ prepared # <<>>
    /\ config.type = "DeviceConfiguration"
    /\ Len(config.devices) = 2
    /\ config.devices[1] \in env.happi
    /\ config.devices[2] \notin env.happi
    /\ \E i \in 1..Len(config.by_attr) :
            /\ <<config.devices[1], config.by_attr[i][1]>> \in env.attrs
            /\ config.by_attr[i][2] # <<>>
    /\ prepared[1].type = "FailedConfiguration"

----------------------------------------------------------------------------
(* C10                                                                     *)

\* The leaves of a node in binding order: <<identifier, comparison>> for
\* every device (if any), every key in dict order, every comparison of the
\* key's list and then of the shared list.
RECURSIVE LeavesOfKey(_, _)
LeavesOfKey(id, cmps) ==
    IF cmps = <<>> THEN <<>>
    ELSE <<<<id, Head(cmps)>>>> \o LeavesOfKey(id, Tail(cmps))

RECURSIVE LeavesOfItems(_, _, _)
LeavesOfItems(prefix, items, shared) ==
    IF items = <<>> THEN <<>>
    ELSE LeavesOfKey(Append(prefix, Head(items)[1]), Head(items)[2] \o shared)
         \o LeavesOfItems(prefix, Tail(items), shared)

RECURSIVE LeavesOfDevices(_, _, _)
LeavesOfDevices(devices, items, shared) ==
    IF devices = <<>> THEN <<>>
    ELSE LeavesOfItems(<<Head(devices)>>, items, shared)
         \o LeavesOfDevices(Tail(devices), items, shared)

ExpectedLeaves(cfg) ==
    IF cfg.type = "DeviceConfiguration"
    THEN LeavesOfDevices(cfg.devices, cfg.by_attr, cfg.shared)
    ELSE IF cfg.type = "PVConfiguration"
    THEN LeavesOfItems(<<>>, cfg.by_pv, cfg.shared)
    ELSE LeavesOfItems(<<>>, cfg.by_attr, cfg.shared)

ExpectedCount(cfg) ==
    IF cfg.type = "DeviceConfiguration"
    THEN Len(cfg.devices) * SumOfLens(cfg.by_attr, cfg.shared)
    ELSE IF cfg.type = "PVConfiguration" THEN SumOfLens(cfg.by_pv, cfg.shared)
    ELSE SumOfLens(cfg.by_attr, cfg.shared)

\* Whether binding the leaf with this identifier succeeds.
Binds(cfg, id, e) ==
    IF cfg.type = "DeviceConfiguration" THEN <<id[1], id[2]>> \in e.attrs
    ELSE IF cfg.type = "PVConfiguration" THEN id[1] \in e.pvs
    ELSE id[1] \in e.keys

\* p holds one leaf or one binding failure for every expected leaf, each list
\* in binding order.
CoversCrossProduct(p, e) ==
    LET cfg == p.config
        all == ExpectedLeaves(cfg)
        okIdx == {i \in 1..Len(all) : Binds(cfg, all[i][1], e)}
        ok == SubSeqAt(all, okIdx)
        bad == SubSeqAt(all, (1..Len(all)) \ okIdx)
    IN  /\ Len(p.comparisons) + Len(p.prepare_failures) = ExpectedCount(cfg)
        /\ Len(p.comparisons) = Len(ok)
        /\ Len(p.prepare_failures) = Len(bad)
        /\ \A k \in 1..Len(ok) :
            /\ p.comparisons[k].identifier = ok[k][1]
            /\ p.comparisons[k].comparison = ok[k][2]
        /\ \A k \in 1..Len(bad) :
            /\ IsException(p.prepare_failures[k])
            /\ p.prepare_failures[k].about = bad[k][1]

IsTerminal(p) ==
    p.type \in {"PreparedDeviceConfiguration", "PreparedPVConfiguration",
                "PreparedToolConfiguration"}

\* C10: a prepared Device configuration holds len(comparisons) +
\* len(prepare_failures) = devices x (sum over the by_attr keys of the length
\* of the key's list followed by the shared list); PV and Tool configurations
\* hold the same without the device factor; a leaf whose binding raises adds
\* one entry to prepare_failures and every other leaf is still bound, in
\* device, attribute, comparison order.
C10_LeafBindingCoversCrossProduct ==
    prepared # <<>>
    => /\ IsTerminal(prepared[1]) => CoversCrossProduct(prepared[1], env)
       /\ prepared[1].type = "PreparedGroup" =>
            \A k \in 1..Len(prepared[1].configs) :
                IsTerminal(prepared[1].configs[k])
                => CoversCrossProduct(prepared[1].configs[k], env)

\* Two devices, the first leaf failed to bind and a later leaf was bound.
C10_Witness ==
    /\ prepared # <<>>
    /\ prepared[1].type = "PreparedDeviceConfiguration"
    /\ Len(config.devices) = 2
    /\ Len(prepared[1].prepare_failures) >= 1
    /\ Len(prepared[1].comparisons) >= 2
    /\ prepared[1].prepare_failures[1].about = ExpectedLeaves(config)[1][1]
    /\ config.shared # <<>>

----------------------------------------------------------------------------
(* The prepared nodes of the executed tree, for the claims about it.       *)

RECURSIVE Nodes(_)
Nodes(p) ==
    IF p.type = "PreparedGroup"
    THEN {p} \cup UNION {Nodes(p.configs[k]) : k \in 1..Len(p.configs)}
    ELSE {p}

Root == prepared[1]

Groups == {n \in Nodes(Root) : n.type = "PreparedGroup"}

Terminals == {n \in Nodes(Root) : n.type # "PreparedGroup"}

LeavesOf(n) == {<<n.path, k>> : k \in 1..Len(n.comparisons)}

\* A fetch that ended in TimeoutError, asyncio.TimeoutError or ophyd's
\* ConnectionTimeoutError.
TimedOut(id) ==
    /\ leaf[id].runs > 0
    /\ IsException(leaf[id].fetch)
    /\ leaf[id].fetch.class \in
        {"TimeoutError", "asyncio.TimeoutError", "ConnectionTimeoutError"}

----------------------------------------------------------------------------
(* C2                                                                      *)

\* C2: once compare() has returned on a prepared node (a group in mode ALL or
\* ANY, or a Device/PV/Tool configuration) whose prepare_failures is not
\* empty, the node's result has severity error, whatever the severities of
\* its children or leaves.
C2_PrepareFailuresForceError ==
    \A n \in Nodes(Root) :
        (n.path \in returned /\ n.prepare_failures # <<>>)
        => result[n.path].severity = error

\* A mode-ANY root that holds a FailedConfiguration, with a prepared child
\* that has a binding failure and a leaf that ended in internal_error: the
\* child and the root are both error.
C2_Witness ==
    /\ ret # <<>>
    /\ Root.config.mode = any_
    /\ Root.prepare_failures # <<>>
    /\ result[Root.path].severity = error
    /\ \E n \in Terminals :
        /\ n.prepare_failures # <<>>
        /\ \E id \in LeavesOf(n) : leaf[id].result.severity = internal_error
        /\ result[n.path].severity = error

----------------------------------------------------------------------------
(* C3                                                                      *)

HasBrokenChild(g) ==
    \E k \in 1..Len(g.configs) : g.configs[k].prepare_failures # <<>>

\* C3 as stated: a group that holds a FailedConfiguration, or a direct child
\* of which has prepare failures, ends at least at error in either mode.
C3_AsStated ==
    \A g \in Groups :
        (g.path \in returned /\ (g.prepare_failures # <<>> \/ HasBrokenChild(g)))
        => result[g.path].severity >= error

\* C3, amended: a group that itself holds a FailedConfiguration ends at error
\* in mode ALL and in mode ANY; a group in mode ALL one of whose direct
\* children has prepare failures ends at least at error.  (In mode ANY the
\* child's error is one severity among the children's and the minimum is
\* taken.)
C3_BrokenBranchNotMasked ==
    \A g \in Groups :
        g.path \in returned
        => /\ g.prepare_failures # <<>> => result[g.path].severity >= error
           /\ (g.config.mode = all_ /\ HasBrokenChild(g))
                => result[g.path].severity >= error

\* A group in mode ALL with a child that has a binding failure and a sibling
\* that passed; the group ended at least at error.
C3_Witness ==
    \E g \in Groups :
        /\ g.path \in returned
        /\ g.config.mode = all_
        /\ g.prepare_failures = <<>>
        /\ HasBrokenChild(g)
        /\ \E k \in 1..Len(g.configs) :
            /\ g.configs[k].prepare_failures = <<>>
            /\ result[g.configs[k].path].severity = success
        /\ result[g.path].severity >= error

----------------------------------------------------------------------------
(* C4                                                                      *)

RECURSIVE SetMax(_)
SetMax(S) ==
    IF S = {} THEN success
    ELSE LET x == CHOOSE x \in S : TRUE
             m == SetMax(S \ {x})
         IN  IF x > m THEN x ELSE m

\* C4: a leaf (signal or tool) whose get_data_async raised a timeout-class
\* error holds a Result of severity comparison.if_disconnected and its
\* predicate was not called; and when the file is a mode-ALL root over one
\* tool check all of whose leaves ended that way, the root's severity is the
\* greatest if_disconnected of those leaves.
C4_TimeoutGivesIfDisconnected ==
    /\ \A id \in DOMAIN leaf :
        TimedOut(id)
        => /\ IsResult(leaf[id].result)
           /\ leaf[id].result.severity = LeafAt(Root, id).comparison.if_disconnected
           /\ leaf[id].predicate = <<>>
           /\ ~leaf[id].lookup
    /\ (/\ ret # <<>>
        /\ Root.config.mode = all_
        /\ Root.prepare_failures = <<>>
        /\ Len(Root.configs) = 1
        /\ Root.configs[1].type = "PreparedToolConfiguration"
        /\ Root.configs[1].prepare_failures = <<>>
        /\ Root.configs[1].comparisons # <<>>
        /\ \A id \in LeavesOf(Root.configs[1]) : TimedOut(id))
       => ret[1].severity =
            SetMax({LeafAt(Root, id).comparison.if_disconnected :
                        id \in LeavesOf(Root.configs[1])})

\* A mode-ALL root over a tool check with two leaves of different
\* if_disconnected, both timed out (one with ConnectionTimeoutError).
C4_Witness ==
    /\ ret # <<>>
    /\ Root.config.mode = all_
    /\ Len(Root.configs) = 1
    /\ Root.configs[1].type = "PreparedToolConfiguration"
    /\ Len(Root.configs[1].comparisons) = 2
    /\ \A id \in LeavesOf(Root.configs[1]) : TimedOut(id)
    /\ \E id \in LeavesOf(Root.configs[1]) :
        leaf[id].fetch.class = "ConnectionTimeoutError"
    /\ leaf[<<Root.configs[1].path, 1>>].result.severity = warning
    /\ leaf[<<Root.configs[1].path, 2>>].result.severity = error
    /\ ret[1].severity = error

----------------------------------------------------------------------------
(* C5                                                                      *)

\* C5: a leaf's compare() ends with a stored Result for every Exception: if
\* get_data_async raised an exception that is no timeout (the ValueError of
\* an unset signal included) the Result is internal_error and the predicate
\* was not called; if the predicate raised, the Result is internal_error.
C5_LeafNeverRaises ==
    \A id \in DOMAIN leaf :
        leaf[id].runs > 0
        => /\ IsResult(leaf[id].result)
           /\ id \in unset =>
                /\ leaf[id].fetch.class = "ValueError"
                /\ leaf[id].result.severity = internal_error
                /\ leaf[id].predicate = <<>>
           /\ (IsException(leaf[id].fetch) /\ ~TimedOut(id))
                => /\ leaf[id].result.severity = internal_error
                   /\ leaf[id].predicate = <<>>
           /\ (leaf[id].predicate # <<>> /\ IsException(leaf[id].predicate[1].did))
                => leaf[id].result.severity = internal_error

\* In one file a leaf with an unset signal and a leaf whose predicate raised.
C5_Witness ==
    /\ \E id \in unset :
        /\ leaf[id].runs > 0
        /\ leaf[id].result.severity = internal_error
    /\ \E id \in DOMAIN leaf :
        /\ leaf[id].predicate # <<>>
        /\ IsException(leaf[id].predicate[1].did)
        /\ leaf[id].result.severity = internal_error

----------------------------------------------------------------------------
(* C6                                                                      *)

\* C6 as stated: for a signal leaf and a tool leaf alike, acquired data of
\* None gives severity comparison.if_disconnected without a call of the
\* predicate or a lookup of the result key; a signal leaf's falsy value
\* (the empty string) is handed to the predicate.
C6_AsStated ==
    \A id \in DOMAIN leaf :
        /\ (leaf[id].runs > 0 /\ leaf[id].fetch = Returns(NoneEntry))
            => /\ leaf[id].result.severity = LeafAt(Root, id).comparison.if_disconnected
               /\ leaf[id].predicate = <<>>
               /\ ~leaf[id].lookup
        /\ (leaf[id].runs > 0 /\ leaf[id].fetch = Returns(Value("")))
            => /\ leaf[id].predicate # <<>>
               /\ leaf[id].predicate[1].arg = leaf[id].fetch.data

----------------------------------------------------------------------------
(* C7                                                                      *)

\* Every leaf of the tree ran once and holds a Result, and every node's
\* compare() has returned.
PassComplete ==
    /\ \A id \in LeafIds(Root) : leaf[id].runs = 1 /\ IsResult(leaf[id].result)
    /\ returned = NodePaths(Root)
    /\ IsResult(ret[1])
    /\ ret[1] = result[Root.path]

\* C7: PreparedFile.compare() eventually returns, whichever leaves failed to
\* fetch or to evaluate, and when it has returned every PreparedComparison of
\* the tree has run exactly once and holds a Result and every prepared node's
\* result has been written.
C7_CompareCompletes ==
    /\ <>(ret # <<>>)
    /\ [](ret # <<>> => PassComplete)

\* compare() returned on a file with two leaves where the first leaf's fetch
\* raised and the second leaf's predicate raised.
C7_Witness ==
    /\ ret # <<>>
    /\ \E a, b \in LeafIds(Root) :
        /\ a # b
        /\ IsException(leaf[a].fetch)
        /\ leaf[b].predicate # <<>>
        /\ IsException(leaf[b].predicate[1].did)
        /\ leaf[a].runs = 1
        /\ leaf[b].runs = 1

----------------------------------------------------------------------------
(* C15                                                                     *)

HasMissing(results) ==
    \E i \in 1..Len(results) : results[i] \in {NoneEntry, ExceptionEntry}

\* C15: a results list that holds a None or an Exception entry makes
\* _summarize_result_severity return error in mode ALL and in mode ANY,
\* whatever the other entries are.
C15_MissingEntryGivesError ==
    (sr_out # <<>> /\ sr_mode \in GroupResultMode /\ HasMissing(sr_results))
        => sr_out = <<error>>

\* Mode ANY, a None entry next to an internal_error Result: error.
C15_Witness ==
    /\ sr_out = <<error>>
    /\ sr_mode = any_
    /\ \E i, j \in 1..Len(sr_results) :
        /\ sr_results[i] = NoneEntry
        /\ sr_results[j] = Result(internal_error, <<>>)

----------------------------------------------------------------------------
(* C16                                                                     *)

\* C16 as stated: with a mode that is neither ALL nor ANY the returned
\* severity is internal_error for every results list.
C16_AsStated ==
    (sr_out # <<>> /\ sr_mode \notin GroupResultMode) => sr_out = <<internal_error>>

\* C16: with a mode that is neither ALL nor ANY the returned severity is
\* internal_error for every results list of Result entries only (the empty
\* list too), and error for a list that holds a None or an Exception entry:
\* the test for such entries comes before the test of the mode.
C16_UnknownModeFailsClosed ==
    (sr_out # <<>> /\ sr_mode \notin GroupResultMode)
        => sr_out = IF HasMissing(sr_results) THEN <<error>> ELSE <<internal_error>>

\* An unknown mode over a list of success Results: internal_error.
C16_Witness ==
    /\ sr_out = <<internal_error>>
    /\ sr_mode = other_mode
    /\ Len(sr_results) >= 2
    /\ \A i \in 1..Len(sr_results) : sr_results[i] = Result(success, <<>>)

----------------------------------------------------------------------------
(* Traversal: ConfigurationGroup.walk_configs, ConfigurationFile.          *)
(* walk_configs / get_by_device / get_by_pv / get_by_tag, and the walks of *)
(* the prepared tree.  What a generator yields is written with the place   *)
(* of the object in the tree, since two places may hold equal objects.     *)

\* Configuration.tags: <<>> for None (the default), <<list>> for a list.
TagsOf(cfg) == IF "tags" \in DOMAIN cfg THEN cfg.tags ELSE <<>>

\* The configuration with its tags field set.
Tagged(cfg, tags) ==
    [f \in DOMAIN cfg \cup {"tags"} |-> IF f = "tags" THEN tags ELSE cfg[f]]

\* A configuration object a generator yields: the object and where it is.
Yielded(path, cfg) == [path |-> path, config |-> cfg]

\* Mutant: the descendants of a subgroup are yielded before the subgroup.
RECURSIVE walk_configs_descends_first(_, _)
walk_configs_descends_first(group, path) ==
    Flatten([k \in 1..Len(group.configs) |->
        LET c == group.configs[k]
            p == Append(path, k)
        IN  (IF c.type = "ConfigurationGroup"
             THEN walk_configs_descends_first(c, p) ELSE <<>>)
            \o <<Yielded(p, c)>>])

\* ConfigurationGroup.walk_configs
RECURSIVE ConfigurationGroup_walk_configs(_, _)
ConfigurationGroup_walk_configs(group, path) ==
    Flatten([k \in 1..Len(group.configs) |->
        LET c == group.configs[k]
            p == Append(path, k)
        IN  <<Yielded(p, c)>>
            \o (IF c.type = "ConfigurationGroup"
                THEN ConfigurationGroup_walk_configs(c, p) ELSE <<>>)])

\* ConfigurationFile.walk_configs
ConfigurationFile_walk_configs(root) ==
    <<Yielded(<<>>, root)>> \o ConfigurationGroup_walk_configs(root, <<>>)

MatchesDevice(name, y) ==
    y.config.type = "DeviceConfiguration" /\ name \in Range(y.config.devices)

MatchesPV(pvname, y) ==
    y.config.type = "PVConfiguration" /\ pvname \in DictKeys(y.config.by_pv)

\* tag_set.intersection(set(config.tags or []))
MatchesTags(tags, y) ==
    /\ TagsOf(y.config) # <<>>
    /\ Range(tags) \cap Range(TagsOf(y.config)[1]) # {}

\* The entries of seq, in order, that satisfy keep (given as the set of
\* entries to keep).
RECURSIVE Filter(_, _)
Filter(seq, kept) ==
    IF seq = <<>> THEN <<>>
    ELSE (IF Head(seq) \in kept THEN <<Head(seq)>> ELSE <<>>) \o Filter(Tail(seq), kept)

\* Mutant: a device name matches a configuration that has any device.
get_by_device_matches_any(root, name) ==
    LET all == ConfigurationFile_walk_configs(root)
    IN  Filter(all, {y \in Range(all) :
            y.config.type = "DeviceConfiguration" /\ y.config.devices # <<>>})

\* ConfigurationFile.get_by_device
ConfigurationFile_get_by_device(root, name) ==
    LET all == ConfigurationFile_walk_configs(root)
    IN  Filter(all, {y \in Range(all) : MatchesDevice(name, y)})

\* ConfigurationFile.get_by_pv
ConfigurationFile_get_by_pv(root, pvname) ==
    LET all == ConfigurationFile_walk_configs(root)
    IN  Filter(all, {y \in Range(all) : MatchesPV(pvname, y)})

\* ConfigurationFile.get_by_tag
ConfigurationFile_get_by_tag(root, tags) ==
    IF tags = <<>> THEN <<>>
    ELSE LET all == ConfigurationFile_walk_configs(root)
         IN  Filter(all, {y \in Range(all) : MatchesTags(tags, y)})

\* What walk_comparisons yields: a failure record (a FailedConfiguration of
\* a group, an exception of a terminal node) or a PreparedComparison, with
\* the node that holds it and its index in that node's list.
YieldedFailure(node, k) ==
    [at |-> node.path, kind |-> "failure", index |-> k, item |-> node.prepare_failures[k]]

YieldedComparison(node, k) ==
    [at |-> node.path, kind |-> "comparison", index |-> k, item |-> node.comparisons[k]]

\* Mutant: the failure records of a node are not yielded.
RECURSIVE walk_comparisons_drops_failures(_)
walk_comparisons_drops_failures(node) ==
    IF node.type = "PreparedGroup"
    THEN Flatten([k \in 1..Len(node.configs) |->
                    walk_comparisons_drops_failures(node.configs[k])])
    ELSE [k \in 1..Len(node.comparisons) |-> YieldedComparison(node, k)]

\* PreparedGroup.walk_comparisons and PreparedConfiguration.walk_comparisons
RECURSIVE walk_comparisons(_)
walk_comparisons(node) ==
    [k \in 1..Len(node.prepare_failures) |-> YieldedFailure(node, k)]
    \o (IF node.type = "PreparedGroup"
        THEN Flatten([k \in 1..Len(node.configs) |-> walk_comparisons(node.configs[k])])
        ELSE [k \in 1..Len(node.comparisons) |-> YieldedComparison(node, k)])

\* PreparedFile.walk_comparisons
PreparedFile_walk_comparisons(root) == walk_comparisons(root)

\* PreparedGroup.walk_groups
RECURSIVE PreparedGroup_walk_groups(_)
PreparedGroup_walk_groups(group) ==
    Flatten([k \in 1..Len(group.configs) |->
        LET c == group.configs[k]
        IN  IF c.type = "PreparedGroup"
            THEN <<c>> \o PreparedGroup_walk_groups(c)
            ELSE <<>>])

\* PreparedFile.walk_groups
PreparedFile_walk_groups(root) == <<root>> \o PreparedGroup_walk_groups(root)

----------------------------------------------------------------------------
(* Generators.  Each call of a walk_* or get_by_* method makes a generator *)
(* object of its own; next() on it runs the method's code up to the next   *)
(* yield.  The cursor of a generator is the number of objects it yielded.  *)

\* The two callers that hold a generator each.
Callers == {"first", "second"}

Tags == {"t1", "t2", "t3"}

WalkCall(fn, arg) == [fn |-> fn, arg |-> arg]

WalkCalls ==
    {WalkCall(fn, <<>>) : fn \in {"walk_configs", "walk_comparisons", "walk_groups"}}
    \cup {WalkCall("get_by_device", <<d>>) : d \in Devices}
    \cup {WalkCall("get_by_pv", <<pv>>) : pv \in PVs}
    \cup {WalkCall("get_by_tag", ts) : ts \in {<<>>, <<"t1">>, <<"t2", "t3">>}}

\* Everything the method called yields, in order, if it is run to its end.
Produce(call) ==
    CASE call.fn = "walk_configs" -> ConfigurationFile_walk_configs(config)
      [] call.fn = "get_by_device" -> ConfigurationFile_get_by_device(config, call.arg[1])
      [] call.fn = "get_by_pv" -> ConfigurationFile_get_by_pv(config, call.arg[1])
      [] call.fn = "get_by_tag" -> ConfigurationFile_get_by_tag(config, call.arg)
      [] call.fn = "walk_comparisons" -> PreparedFile_walk_comparisons(prepared[1])
      [] call.fn = "walk_groups" -> PreparedFile_walk_groups(prepared[1])

\* The configurations walked: tags None (dev2), [] (wpv) and lists.
wdev == Tagged(dev1, <<<<"t1">>>>)
wpv == Tagged(pvc2, <<<<>>>>)
wtool == Tagged(tool2, <<<<"t2", "t1">>>>)
wgroup == Tagged(ConfigurationGroup(any_, <<dev2, wpv>>), <<<<"t2">>>>)

WalkChildren == {wdev, wpv, wtool, wgroup}

WalkFiles ==
    {Tagged(ConfigurationGroup(all_, cs), t) :
        cs \in {c \in SeqsUpTo(WalkChildren, MaxNodes) :
                  \A i, j \in DOMAIN c : c[i] = c[j] => i = j},
        t \in {<<>>, <<<<"t1">>>>}}

\* Collaborators that refuse device d2, attribute d1.a1 and result key k2.
SomeUnresolved ==
    [happi |-> Devices \ {"d2"}, attrs |-> (Devices \X Attrs) \ {<<"d1", "a1">>},
     pvs |-> PVs, keys |-> Keys \ {"k2"}]

WalkInit ==
    /\ config \in WalkFiles
    /\ env \in {AllResolve, SomeUnresolved}
    /\ prepared = <<PreparedFile_from_config(config, TheCache(env), env)>>
    /\ gens = <<>>
    /\ report = <<>>
    /\ SummarizeIdle
    /\ CompareIdle
    /\ FillIdle

\* A call of a walk_* or get_by_* method: a new generator, nothing run yet.
Walk_call(who, call) ==
    /\ who \notin DOMAIN gens
    /\ gens' = [w \in DOMAIN gens \cup {who} |->
                    IF w = who THEN [call |-> call, out |-> <<>>, done |-> FALSE]
                    ELSE gens[w]]
    /\ UNCHANGED <<sr_vars, prep_vars, run_vars, fill_vars, report>>

\* Mutant: the cursor is shared, so a generator goes on where the one that
\* got furthest is.
next_shares_the_cursor(who) ==
    /\ who \in DOMAIN gens
    /\ ~gens[who].done
    /\ LET full == Produce(gens[who].call)
           at == CHOOSE n \in {Len(gens[w].out) : w \in DOMAIN gens} :
                    \A w \in DOMAIN gens : Len(gens[w].out) <= n
       IN  gens' = [gens EXCEPT ![who] =
                IF at < Len(full)
                THEN [@ EXCEPT !.out = Append(@, full[at + 1])]
                ELSE [@ EXCEPT !.done = TRUE]]
    /\ UNCHANGED <<sr_vars, prep_vars, run_vars, fill_vars, report>>

\* next() on a generator: the next object, or StopIteration at the end.
Walk_next(who) ==
    /\ who \in DOMAIN gens
    /\ ~gens[who].done
    /\ LET full == Produce(gens[who].call)
           at == Len(gens[who].out)
       IN  gens' = [gens EXCEPT ![who] =
                IF at < Len(full)
                THEN [@ EXCEPT !.out = Append(@, full[at + 1])]
                ELSE [@ EXCEPT !.done = TRUE]]
    /\ UNCHANGED <<sr_vars, prep_vars, run_vars, fill_vars, report>>

WalkNext ==
    \/ \E who \in Callers, call \in WalkCalls : Walk_call(who, call)
    \/ \E who \in Callers : Walk_next(who)

SpecWalk == WalkInit /\ [][WalkNext]_vars

----------------------------------------------------------------------------
(* The places of a configuration tree and their depth-first order.         *)

RECURSIVE ConfigPaths(_, _)
ConfigPaths(cfg, path) ==
    IF cfg.type = "ConfigurationGroup"
    THEN {path} \cup UNION {ConfigPaths(cfg.configs[k], Append(path, k)) :
                                k \in 1..Len(cfg.configs)}
    ELSE {path}

RECURSIVE ConfigAt(_, _)
ConfigAt(cfg, path) ==
    IF path = <<>> THEN cfg ELSE ConfigAt(cfg.configs[Head(path)], Tail(path))

IsPrefix(p, q) == Len(p) <= Len(q) /\ SubSeq(q, 1, Len(p)) = p

\* p comes before q in depth-first pre-order with children in list order: p
\* is a proper ancestor of q, or p branches off to an earlier child.
PathBefore(p, q) ==
    \/ p # q /\ IsPrefix(p, q)
    \/ \E k \in 1..Len(p) :
        /\ k <= Len(q)
        /\ SubSeq(p, 1, k - 1) = SubSeq(q, 1, k - 1)
        /\ p[k] < q[k]

\* Two generators of the same call agree on what they have both yielded.
AgreeSoFar(a, b) ==
    \A i \in 1..Len(a.out) : i <= Len(b.out) => a.out[i] = b.out[i]

Restartable ==
    \A v, w \in DOMAIN gens : gens[v].call = gens[w].call => AgreeSoFar(gens[v], gens[w])

\* The objects are those of the tree, each at most once, in pre-order.
InPreOrder(out) ==
    /\ \A i \in 1..Len(out) :
        /\ out[i].path \in ConfigPaths(config, <<>>)
        /\ out[i].config = ConfigAt(config, out[i].path)
    /\ \A i, j \in 1..Len(out) : i < j => PathBefore(out[i].path, out[j].path)

----------------------------------------------------------------------------
(* C18                                                                     *)

\* C18: ConfigurationFile.walk_configs yields the root first, then every
\* node of the tree exactly once, a group before its descendants and the
\* children of a group in list order; two calls yield the same sequence,
\* however far the other generator has been consumed.
C18_WalkConfigsPreOrder ==
    /\ Restartable
    /\ \A w \in DOMAIN gens :
        gens[w].call.fn = "walk_configs" =>
            LET out == gens[w].out
            IN  /\ InPreOrder(out)
                /\ out # <<>> => out[1] = Yielded(<<>>, config)
                /\ gens[w].done =>
                    {out[i].path : i \in 1..Len(out)} = ConfigPaths(config, <<>>)

\* A walk run to its end over a root with a subgroup and a node after it,
\* while a second walk of the same file stopped after two objects.
C18_Witness ==
    /\ DOMAIN gens = Callers
    /\ gens["first"].call.fn = "walk_configs"
    /\ gens["second"].call.fn = "walk_configs"
    /\ gens["second"].done
    /\ Len(gens["second"].out) >= 5
    /\ Len(gens["first"].out) = 2
    /\ ~gens["first"].done
    /\ Len(config.configs) = 2
    /\ config.configs[1].type = "ConfigurationGroup"

----------------------------------------------------------------------------
(* C19                                                                     *)

\* The failure records and the leaves of the prepared tree, as walk_comparisons
\* names them.
AllFailures ==
    UNION {{<<n.path, k>> : k \in 1..Len(n.prepare_failures)} : n \in Nodes(Root)}

NodeAt(path) == CHOOSE n \in Nodes(Root) : n.path = path

Named(out, kind) ==
    {<<out[i].at, out[i].index>> : i \in {j \in 1..Len(out) : out[j].kind = kind}}

\* C19: PreparedFile.walk_comparisons yields every PreparedComparison and
\* every failure record of the tree exactly once, the failure records of a
\* node before the leaves of that node and before everything of its
\* children; PreparedFile.walk_groups yields the root first and every
\* prepared group exactly once, a group before its subgroups; two calls
\* yield the same sequence.
C19_PreparedWalksComplete ==
    /\ Restartable
    /\ \A w \in DOMAIN gens :
        LET out == gens[w].out
        IN  /\ gens[w].call.fn = "walk_comparisons" =>
                /\ \A i, j \in 1..Len(out) :
                    (i # j) => <<out[i].at, out[i].kind, out[i].index>>
                                # <<out[j].at, out[j].kind, out[j].index>>
                /\ \A i \in 1..Len(out) :
                    /\ out[i].at \in NodePaths(Root)
                    /\ out[i].kind = "failure" =>
                        out[i].item = NodeAt(out[i].at).prepare_failures[out[i].index]
                    /\ out[i].kind = "comparison" =>
                        out[i].item = LeafAt(Root, <<out[i].at, out[i].index>>)
                /\ \A i, j \in 1..Len(out) :
                    ( /\ out[i].kind = "failure"
                      /\ IsPrefix(out[i].at, out[j].at)
                      /\ (out[j].kind = "comparison" \/ out[j].at # out[i].at) )
                    => i < j
                /\ gens[w].done =>
                    /\ Named(out, "comparison") = LeafIds(Root)
                    /\ Named(out, "failure") = AllFailures
            /\ gens[w].call.fn = "walk_groups" =>
                /\ out # <<>> => out[1] = Root
                /\ \A i \in 1..Len(out) : out[i] \in Groups
                /\ \A i, j \in 1..Len(out) : i < j => PathBefore(out[i].path, out[j].path)
                /\ gens[w].done => {out[i] : i \in 1..Len(out)} = Groups

\* Both walks run to the end over a tree whose root holds a leaf-binding
\* exception in one child and whose subgroup holds a FailedConfiguration.
C19_Witness ==
    /\ DOMAIN gens = Callers
    /\ gens["first"].call.fn = "walk_comparisons"
    /\ gens["second"].call.fn = "walk_groups"
    /\ gens["first"].done
    /\ gens["second"].done
    /\ Len(gens["second"].out) = 2
    /\ \E i, j, k \in 1..Len(gens["first"].out) :
        /\ IsFailedConfiguration(gens["first"].out[i].item)
        /\ IsException(gens["first"].out[j].item)
        /\ gens["first"].out[k].kind = "comparison"

----------------------------------------------------------------------------
(* C20                                                                     *)

\* The places of the tree whose configuration satisfies one of the filters.
PlacesOfDevice(name) ==
    {p \in ConfigPaths(config, <<>>) :
        /\ ConfigAt(config, p).type = "DeviceConfiguration"
        /\ \E i \in 1..Len(ConfigAt(config, p).devices) : ConfigAt(config, p).devices[i] = name}

PlacesOfPV(pvname) ==
    {p \in ConfigPaths(config, <<>>) :
        /\ ConfigAt(config, p).type = "PVConfiguration"
        /\ \E i \in 1..Len(ConfigAt(config, p).by_pv) : ConfigAt(config, p).by_pv[i][1] = pvname}

PlacesOfTags(tags) ==
    {p \in ConfigPaths(config, <<>>) :
        /\ "tags" \in DOMAIN ConfigAt(config, p)
        /\ ConfigAt(config, p).tags # <<>>
        /\ \E i \in 1..Len(tags), j \in 1..Len(ConfigAt(config, p).tags[1]) :
                tags[i] = ConfigAt(config, p).tags[1][j]}

PlacesOf(call) ==
    CASE call.fn = "get_by_device" -> PlacesOfDevice(call.arg[1])
      [] call.fn = "get_by_pv" -> PlacesOfPV(call.arg[1])
      [] call.fn = "get_by_tag" -> PlacesOfTags(call.arg)

\* C20: get_by_device(name), get_by_pv(pvname) and get_by_tag(tags...) yield
\* exactly the DeviceConfiguration nodes whose devices hold name, the
\* PVConfiguration nodes whose by_pv has the key pvname, and the nodes (the
\* root too) whose tags share a tag with the given ones, in walk_configs
\* order and each once; get_by_tag() without tags yields nothing, and a node
\* whose tags are None or [] is never yielded by get_by_tag.
C20_GetByFilters ==
    \A w \in DOMAIN gens :
        gens[w].call.fn \in {"get_by_device", "get_by_pv", "get_by_tag"} =>
            LET out == gens[w].out
            IN  /\ InPreOrder(out)
                /\ \A i \in 1..Len(out) : out[i].path \in PlacesOf(gens[w].call)
                /\ gens[w].done =>
                    {out[i].path : i \in 1..Len(out)} = PlacesOf(gens[w].call)
                /\ gens[w].call = WalkCall("get_by_tag", <<>>) => out = <<>>
                /\ gens[w].call.fn = "get_by_tag" =>
                    \A i \in 1..Len(out) :
                        TagsOf(out[i].config) \notin {<<>>, <<<<>>>>}

\* get_by_tag("t1") run to its end yielded the root and one more node and
\* not the node with tags [], and get_by_device("d1") run to its end yielded
\* a device configuration inside the subgroup.
C20_Witness ==
    /\ DOMAIN gens = Callers
    /\ gens["first"].call = WalkCall("get_by_tag", <<"t1">>)
    /\ gens["first"].done
    /\ Len(gens["first"].out) = 2
    /\ gens["first"].out[1].path = <<>>
    /\ gens["second"].call = WalkCall("get_by_device", <<"d1">>)
    /\ gens["second"].done
    /\ \E i \in 1..Len(gens["second"].out) : Len(gens["second"].out[i].path) = 2
    /\ \E p \in ConfigPaths(config, <<>>) : TagsOf(ConfigAt(config, p)) = <<<<>>>>

----------------------------------------------------------------------------
(* Point checks: a mode-ALL root over two PVConfigurations.                *)

pvc3 == PVConfiguration(<<<<"pv2", <<cB>>>>>>, <<>>)
pvc4 == PVConfiguration(<<<<"pv1", <<cA>>>>, <<"pv2", <<cC>>>>>>, <<>>)

PointChecks == {pvc1, pvc3, pvc4}

PointFiles == {ConfigurationGroup(all_, <<p, q>>) : p, q \in PointChecks}

PointInit == RunFrom(PointFiles) /\ FillIdle

SpecPoint == PointInit /\ [][Next]_vars

----------------------------------------------------------------------------
(* C17                                                                     *)

\* compare() has returned on a mode-ALL root of two point checks of which
\* exactly one has a PV that did not resolve at preparation.
OnePointCheckBroken ==
    /\ ret # <<>>
    /\ config \in PointFiles
    /\ Cardinality({k \in 1..2 :
            ~(DictKeys(config.configs[k].by_pv) \subseteq env.pvs)}) = 1

\* C17 as stated: the root severity is error and walk_comparisons yields
\* exactly one FailedConfiguration and, besides it, exactly the prepared
\* comparisons of the surviving check.
C17_AsStated ==
    OnePointCheckBroken =>
        LET out == PreparedFile_walk_comparisons(Root)
            survivor == CHOOSE n \in Terminals : n.prepare_failures = <<>>
        IN  /\ ret[1].severity = error
            /\ Cardinality({i \in 1..Len(out) : IsFailedConfiguration(out[i].item)}) = 1
            /\ {out[i].item : i \in {j \in 1..Len(out) : out[j].kind = "comparison"}}
                    = Range(survivor.comparisons)

\* C17: both checks are prepared (a PVConfiguration never becomes a
\* FailedConfiguration), so walk_comparisons yields no FailedConfiguration:
\* it yields, check by check, the exceptions of the leaves that did not bind
\* and then the leaves that did, the surviving check's comparisons among
\* them; the broken check's result is error whatever its leaves did, and
\* the root severity is error unless a leaf of the surviving check ended in
\* internal_error, which the ALL root then takes.
C17_BrokenPointCheck ==
    OnePointCheckBroken =>
        LET out == PreparedFile_walk_comparisons(Root)
            first == Root.configs[1]
            second == Root.configs[2]
        IN  /\ Root.prepare_failures = <<>>
            /\ \A i \in 1..Len(out) : ~IsFailedConfiguration(out[i].item)
            /\ [i \in 1..Len(out) |-> out[i].item]
                    = first.prepare_failures \o first.comparisons
                      \o second.prepare_failures \o second.comparisons
            /\ Cardinality({n \in Terminals : n.prepare_failures # <<>>}) = 1
            /\ \A n \in Terminals :
                n.prepare_failures # <<>> => result[n.path].severity = error
            /\ ret[1].severity =
                IF \E n \in Terminals : \E id \in LeavesOf(n) :
                        /\ n.prepare_failures = <<>>
                        /\ leaf[id].result.severity = internal_error
                THEN internal_error ELSE error

\* The broken check has no leaf left, the surviving check's leaf passed,
\* and the root is error.
C17_Witness ==
    /\ OnePointCheckBroken
    /\ ret[1].severity = error
    /\ \E n \in Terminals : n.prepare_failures # <<>> /\ n.comparisons = <<>>
    /\ \E id \in DOMAIN leaf : leaf[id].result.severity = success /\ leaf[id].predicate # <<>>

----------------------------------------------------------------------------
(* Repeated execution: PreparedFile.compare() called again on the same     *)
(* prepared file.  The fields of the nodes and leaves stay as the pass     *)
(* before left them; the record of what a leaf's run did starts afresh.    *)

PreparedFile_compare_again ==
    /\ stack = <<>>
    /\ ret # <<>>
    /\ FillQuiet
    /\ pass < MaxPasses
    /\ pass' = pass + 1
    /\ stack' = <<Frame(prepared[1])>>
    /\ ret' = <<>>
    /\ returned' = {}
    /\ leaf' = [id \in DOMAIN leaf |->
            [leaf[id] EXCEPT !.runs = 0, !.fetch = NoneEntry,
                             !.predicate = <<>>, !.lookup = FALSE]]
    /\ UNCHANGED <<sr_vars, prep_vars, walk_vars, fill_vars, result, unset, inflight>>

\* The files executed more than once: a root over one check of one leaf.
PassFiles == {ConfigurationGroup(m, <<c>>) : m \in GroupResultMode, c \in {dev1, pvc2, tool1}}

PassInit == RunFrom(PassFiles) /\ FillIdle

PassNext == Next \/ PreparedFile_compare_again

SpecPasses == PassInit /\ [][PassNext]_vars

----------------------------------------------------------------------------
(* C13                                                                     *)

\* C13 as stated: when compare() has returned, every leaf was run in that
\* pass and holds a Result, and its data field is what that pass's fetch
\* acquired: the value returned, and no value of an earlier pass if the
\* fetch raised.
C13_AsStated ==
    ret # <<>> =>
        \A id \in DOMAIN leaf :
            /\ leaf[id].runs = 1
            /\ IsResult(leaf[id].result)
            /\ leaf[id].fetch.type = "return" => leaf[id].data = leaf[id].fetch.data
            /\ IsException(leaf[id].fetch) => leaf[id].data \in {NoneEntry, NoAttribute}

----------------------------------------------------------------------------
(* PreparedFile.fill_cache.  One session: a prepared file, a cache whose   *)
(* underlying fetch of a key has one fixed outcome, and a caller that      *)
(* calls fill_cache and compare one after the other, awaiting the tasks of *)
(* a parallel fill_cache before its next call.                             *)

MaxFills == 2

\* The PreparedComparison objects of walk_comparisons, in its order, each
\* named by its node and index.
FillLeaves ==
    LET all == PreparedFile_walk_comparisons(Root)
        at == {k \in 1..Len(all) : all[k].kind = "comparison"}
        nth[k \in 0..Len(all)] ==
            IF k = 0 THEN <<>>
            ELSE IF k \in at THEN Append(nth[k - 1], <<all[k].at, all[k].index>>)
            ELSE nth[k - 1]
    IN  nth[Len(all)]

Calls == IF fill = <<>> THEN 0 ELSE fill[1].calls

NewTask == [pc |-> "created", got |-> NoneEntry]

\* The leaf's data field once get_data_async has returned: the signal leaf
\* stores what it got, the tool leaf does not.
DataAfter(l, st, o) ==
    IF l.type = "PreparedSignalComparison" THEN [st EXCEPT !.data = o.data] ELSE st

\* PreparedFile.fill_cache(parallel): with parallel, a task per
\* PreparedComparison is created and the list returned; without, the loop
\* over the PreparedComparison objects starts.
PreparedFile_fill_cache(parallel) ==
    /\ stack = <<>>
    /\ FillQuiet
    /\ Calls < MaxFills
    /\ fill' = <<[parallel |-> parallel, at |-> 1, waiting |-> FALSE,
                 state |-> IF parallel THEN "returned" ELSE "running",
                 error |-> NoneEntry, calls |-> Calls + 1]>>
    /\ tasks' = IF parallel THEN [id \in Range(FillLeaves) |-> NewTask] ELSE <<>>
    /\ UNCHANGED <<sr_vars, prep_vars, walk_vars, run_vars, source, cache_data, fetches>>

\* fill_cache(parallel=False): await prepared.get_data_async(), up to the
\* await of the cache or to the ValueError of an unset signal, which leaves
\* fill_cache.
fill_cache_get_data ==
    /\ fill # <<>>
    /\ fill[1].state = "running"
    /\ ~fill[1].waiting
    /\ fill[1].at <= Len(FillLeaves)
    /\ LET id == FillLeaves[fill[1].at]
           l == LeafAt(Root, id)
       IN  IF l.type = "PreparedSignalComparison" /\ id \in unset
           THEN /\ fill' = <<[fill[1] EXCEPT !.state = "raised",
                                !.error = Exception("ValueError", <<"Signal instance unset">>)]>>
                /\ UNCHANGED <<cache_data, fetches>>
           ELSE /\ fill' = <<[fill[1] EXCEPT !.waiting = TRUE]>>
                /\ DataCache_request(KeyOf(l))
    /\ UNCHANGED <<sr_vars, prep_vars, walk_vars, run_vars, source, tasks>>

\* fill_cache(parallel=False): the await ends.  What the cache raises leaves
\* fill_cache; what it returns is stored and the loop goes on.
fill_cache_resume ==
    /\ fill # <<>>
    /\ fill[1].state = "running"
    /\ fill[1].waiting
    /\ LET id == FillLeaves[fill[1].at]
           l == LeafAt(Root, id)
           o == source[KeyOf(l)]
       IN  /\ cache_data[KeyOf(l)] = "done"
           /\ IF IsException(o)
              THEN /\ fill' = <<[fill[1] EXCEPT !.state = "raised", !.error = o,
                                   !.waiting = FALSE]>>
                   /\ UNCHANGED leaf
              ELSE /\ fill' = <<[fill[1] EXCEPT !.at = @ + 1, !.waiting = FALSE]>>
                   /\ leaf' = [leaf EXCEPT ![id] = DataAfter(l, @, o)]
    /\ UNCHANGED <<sr_vars, prep_vars, walk_vars, source, cache_data, fetches, tasks>>
    /\ UNCHANGED <<result, unset, stack, inflight, returned, ret, pass>>

\* fill_cache(parallel=False): return None
fill_cache_return ==
    /\ fill # <<>>
    /\ fill[1].state = "running"
    /\ ~fill[1].waiting
    /\ fill[1].at > Len(FillLeaves)
    /\ fill' = <<[fill[1] EXCEPT !.state = "returned"]>>
    /\ UNCHANGED <<sr_vars, prep_vars, walk_vars, run_vars, source, cache_data, fetches, tasks>>

\* A task of fill_cache(parallel=True) runs get_data_async up to the await
\* of the cache, or ends with the ValueError of an unset signal.
Task_get_data_async(id) ==
    /\ id \in DOMAIN tasks
    /\ tasks[id].pc = "created"
    /\ LET l == LeafAt(Root, id)
       IN  IF l.type = "PreparedSignalComparison" /\ id \in unset
           THEN /\ tasks' = [tasks EXCEPT ![id] =
                        [pc |-> "done",
                         got |-> Exception("ValueError", <<"Signal instance unset">>)]]
                /\ UNCHANGED <<cache_data, fetches>>
           ELSE /\ tasks' = [tasks EXCEPT ![id] = [@ EXCEPT !.pc = "waiting"]]
                /\ DataCache_request(KeyOf(l))
    /\ UNCHANGED <<sr_vars, prep_vars, walk_vars, run_vars, source, fill>>

\* The await of the task ends: the task holds what the cache returned or
\* raised.
Task_resume(id) ==
    /\ id \in DOMAIN tasks
    /\ tasks[id].pc = "waiting"
    /\ LET l == LeafAt(Root, id)
           o == source[KeyOf(l)]
       IN  /\ cache_data[KeyOf(l)] = "done"
           /\ tasks' = [tasks EXCEPT ![id] = [pc |-> "done", got |-> o]]
           /\ leaf' = IF IsException(o) THEN leaf
                      ELSE [leaf EXCEPT ![id] = DataAfter(l, @, o)]
    /\ UNCHANGED <<sr_vars, prep_vars, walk_vars, source, cache_data, fetches, fill>>
    /\ UNCHANGED <<result, unset, stack, inflight, returned, ret, pass>>

\* The underlying fetch of a key ends.
DataCache_fetched(key) ==
    /\ key \in DOMAIN cache_data
    /\ cache_data[key] = "pending"
    /\ cache_data' = [cache_data EXCEPT ![key] = "done"]
    /\ UNCHANGED <<sr_vars, prep_vars, walk_vars, run_vars, source, fetches, tasks, fill>>

\* The comparisons of the filled files: cD asks the cache for what cA asks
\* it, with string False where cA has None; cE asks for a reduced read.
cD == WithReduce(cB, "None", "average", "False")
cE == WithReduce(cC, "1", "average", "None")

fpv1 == PVConfiguration(<<<<"pv1", <<cA, cD>>>>>>, <<>>)
fpv2 == PVConfiguration(<<<<"pv1", <<cE>>>>>>, <<>>)

FillChecks == {<<fpv1>>, <<pvc1, fpv2>>, <<pvc1, pvc3>>, <<tool2>>, <<dev1, tool1>>}

FillFiles == {ConfigurationGroup(m, cs) : m \in GroupResultMode, cs \in FillChecks}

\* What the underlying fetch of a key can do.
FillOutcomes(key) ==
    IF key[1] = "signal"
    THEN {Returns(Value("")), Returns(NoneEntry),
          Exception("TimeoutError", <<>>), Exception("RuntimeError", <<>>)}
    ELSE {Returns(Bundle([k \in Keys |-> "1"])),
          Exception("TimeoutError", <<>>), Exception("RuntimeError", <<>>)}

KeysOf(root) == {KeyOf(LeafAt(root, id)) : id \in LeafIds(root)}

FillInit ==
    /\ RunFrom(FillFiles)
    /\ LeafIds(prepared[1]) # {}
    /\ source \in {f \in [KeysOf(prepared[1]) -> UNION {FillOutcomes(k) : k \in KeysOf(prepared[1])}] :
                     \A k \in DOMAIN f : f[k] \in FillOutcomes(k)}
    /\ cache_data = <<>>
    /\ fetches = <<>>
    /\ tasks = <<>>
    /\ fill = <<>>

FillNext ==
    \/ Next
    \/ PreparedFile_compare_again
    \/ \E parallel \in BOOLEAN : PreparedFile_fill_cache(parallel)
    \/ fill_cache_get_data
    \/ fill_cache_resume
    \/ fill_cache_return
    \/ \E id \in DOMAIN tasks : Task_get_data_async(id)
    \/ \E id \in DOMAIN tasks : Task_resume(id)
    \/ \E key \in DOMAIN cache_data : DataCache_fetched(key)

SpecFill == FillInit /\ [][FillNext]_vars

----------------------------------------------------------------------------
(* C11                                                                     *)

\* Two leaves ask the cache for the same data: the same signal with the
\* same reduce_period and reduce_method and string settings that are both
\* true or both not, or the same tool.
SameRequest(a, b) ==
    /\ a.type = b.type
    /\ IF a.type = "PreparedSignalComparison"
       THEN /\ a.signal = b.signal
            /\ ReduceOf(a.comparison)[1] = ReduceOf(b.comparison)[1]
            /\ ReduceOf(a.comparison)[2] = ReduceOf(b.comparison)[2]
            /\ (ReduceOf(a.comparison)[3] = "True") = (ReduceOf(b.comparison)[3] = "True")
       ELSE a.tool = b.tool

\* The task has called the cache.
Asked(id) ==
    /\ id \in DOMAIN tasks
    /\ tasks[id].pc # "created"
    /\ ~(LeafAt(Root, id).type = "PreparedSignalComparison" /\ id \in unset)

\* C11: whenever tasks of fill_cache(parallel=True) have asked the cache for
\* the same data, in whatever order the tasks and the fetch ran, they asked
\* under one key, one underlying fetch was issued for it, and the tasks
\* that are done hold the same value or the same exception.
C11_CacheDedup ==
    \A a, b \in DOMAIN tasks :
        (Asked(a) /\ Asked(b) /\ SameRequest(LeafAt(Root, a), LeafAt(Root, b))) =>
            /\ KeyOf(LeafAt(Root, a)) = KeyOf(LeafAt(Root, b))
            /\ fetches[KeyOf(LeafAt(Root, a))] = 1
            /\ (tasks[a].pc = "done" /\ tasks[b].pc = "done") => tasks[a].got = tasks[b].got

\* Two tasks asked for the same data, with string None and string False,
\* and both ended with the timeout of the one fetch.
C11_Witness ==
    \E a, b \in DOMAIN tasks :
        /\ a # b
        /\ Asked(a) /\ Asked(b)
        /\ SameRequest(LeafAt(Root, a), LeafAt(Root, b))
        /\ ReduceOf(LeafAt(Root, a).comparison) # ReduceOf(LeafAt(Root, b).comparison)
        /\ tasks[a].pc = "done" /\ tasks[b].pc = "done"
        /\ IsException(tasks[a].got) /\ tasks[a].got.class = "TimeoutError"
        /\ fetches[KeyOf(LeafAt(Root, a))] = 1

----------------------------------------------------------------------------
(* C12                                                                     *)

\* What the fetch of the leaf does in a session with fixed outcomes,
\* however the cache was filled.
FetchOf(id) ==
    get_data_async(LeafAt(Root, id), id \in unset, source[KeyOf(LeafAt(Root, id))])

\* C12 as stated: with a fixed outcome per data source and every leaf's
\* signal set, fill_cache ends by
\* returning with parallel=False as with parallel=True, never by raising,
\* and the compare() after it runs every leaf on the outcome of its source,
\* so that the severities do not depend on how the cache was filled.
C12_AsStated ==
    unset = {} =>
        /\ fill # <<>> => fill[1].state # "raised"
        /\ (fill # <<>> /\ ret # <<>>) =>
                \A id \in DOMAIN leaf : leaf[id].runs = 1 /\ leaf[id].fetch = FetchOf(id)

----------------------------------------------------------------------------
(* C14                                                                     *)

\* C14: no step of compare(), of fill_cache or of one of its tasks changes
\* the prepared tree (every node's configs, comparisons, prepare_failures,
\* parent, cache and config, every leaf's identifier, comparison, signal or
\* tool and parent), the configuration it was made from, or whether a
\* leaf's signal is set.
C14_ExecutionKeepsTheTree ==
    [][prepared' = prepared /\ config' = config /\ unset' = unset]_vars

\* The cache was filled twice and compare() has returned twice on a tree
\* whose root holds a failure record, and a leaf holds data.
C14_Witness ==
    /\ pass = 2
    /\ ret # <<>>
    /\ Calls = 2
    /\ Root.prepare_failures # <<>>
    /\ \E id \in DOMAIN leaf :
            /\ leaf[id].data \notin {NoneEntry, NoAttribute}
            /\ IsResult(leaf[id].result)

----------------------------------------------------------------------------
(* C21                                                                     *)

\* The leaf is a tool leaf whose last fetch returned a bundle without the
\* leaf's result key.
KeyMissing(id) ==
    /\ LeafAt(Root, id).type = "PreparedToolComparison"
    /\ leaf[id].runs > 0
    /\ leaf[id].fetch.type = "return"
    /\ leaf[id].fetch.data.type = "bundle"
    /\ LeafAt(Root, id).identifier[1] \notin DOMAIN leaf[id].fetch.data.items

\* C21: a tool leaf whose acquired bundle lacks its result key holds, after
\* compare(), a Result of severity comparison.severity_on_failure; the
\* predicate was not called and the leaf's compare() returned.
C21_MissingKeyGivesOnFailure ==
    \A id \in DOMAIN leaf :
        KeyMissing(id) =>
            /\ IsResult(leaf[id].result)
            /\ leaf[id].result.severity = LeafAt(Root, id).comparison.severity_on_failure
            /\ leaf[id].predicate = <<>>
            /\ leaf[id].lookup

\* A tool leaf got a bundle without its key and ended with its
\* severity_on_failure, which is neither internal_error nor its
\* if_disconnected.
C21_Witness ==
    \E id \in DOMAIN leaf :
        /\ KeyMissing(id)
        /\ LeafAt(Root, id).comparison.severity_on_failure # internal_error
        /\ LeafAt(Root, id).comparison.severity_on_failure
                # LeafAt(Root, id).comparison.if_disconnected
        /\ leaf[id].result.severity = LeafAt(Root, id).comparison.severity_on_failure

----------------------------------------------------------------------------
(* PreparedFile.from_config called more than once on one configuration     *)
(* file, each time with a cache of its own: one handed in, or None, for    *)
(* which from_config creates one.  The configuration is the caller's       *)
(* object, which every call reads again; each cache has its own signals    *)
(* registry; the other collaborators resolve the same names in every call. *)

MaxPrepares == 2

\* The files prepared more than once: a root group of up to MaxNodes
\* different children, with shared lists and lists of their own.
dev3 == DeviceConfiguration(<<"d1">>, <<<<"a1", <<cA>>>>>>, <<cB>>)
pvc5 == PVConfiguration(<<<<"pv1", <<cA>>>>, <<"pv2", <<>>>>>>, <<cB>>)
tool3 == ToolConfiguration(Ping, <<<<"k1", <<cB>>>>>>, <<cA>>)

FileChildren ==
    {dev3, pvc5, tool3, pvc2, ConfigurationGroup(any_, <<dev1, pvc2>>)}

FileFiles ==
    {ConfigurationGroup(m, cs) :
        m \in GroupResultMode,
        cs \in {c \in SeqsUpTo(FileChildren, MaxNodes) \ {<<>>} :
                  \A i, j \in DOMAIN c : c[i] = c[j] => i = j}}

\* The registries a cache can have: any of the PV names the file mentions
\* may be one its cache.signals yields no signal for.
Registries == {PVs \ p : p \in SUBSET PVsIn(config)}

\* The caches a caller hands in.
GivenIds == {<<"cache", 0>>, <<"cache2", 0>>}

GivenCaches == {DataCache(id, signals) : id \in GivenIds, signals \in Registries}

\* if cache is None: cache = DataCache(), the object the n-th call creates
CacheOr(cache_opt, n, signals) ==
    IF cache_opt = <<>> THEN DataCache(<<"DataCache", n>>, signals) ELSE cache_opt[1]

\* The PreparedFile object: its cache and its root.
PreparedFile(file_root, cache, e) ==
    [type |-> "PreparedFile", cache |-> cache,
     root |-> PreparedFile_from_config(file_root, cache, e)]

FileInit ==
    /\ config \in FileFiles
    /\ env \in Envs(config)
    /\ env.pvs = PVs
    /\ prepared = <<>>
    /\ SummarizeIdle
    /\ CompareIdle
    /\ WalkIdle
    /\ FillIdle

\* Mutant: the loops over a configuration's lists run over
\* comparisons += shared, which extends the list of the configuration in
\* place at every call.
from_config_extends_lists_in_place(cache_opt) ==
    LET RECURSIVE Extended(_)
        Extended(cfg) ==
            IF cfg.type = "ConfigurationGroup"
            THEN [cfg EXCEPT !.configs = [k \in 1..Len(cfg.configs) |-> Extended(cfg.configs[k])]]
            ELSE IF cfg.type = "PVConfiguration"
            THEN [cfg EXCEPT !.by_pv = [k \in 1..Len(cfg.by_pv) |->
                        <<cfg.by_pv[k][1], cfg.by_pv[k][2] \o cfg.shared>>]]
            ELSE IF cfg.type = "DeviceConfiguration" /\ FirstUnresolved(cfg.devices, env) # 0
            THEN cfg
            ELSE [cfg EXCEPT !.by_attr = [k \in 1..Len(cfg.by_attr) |->
                        <<cfg.by_attr[k][1], cfg.by_attr[k][2] \o cfg.shared>>]]
    IN  /\ Len(prepared) < MaxPrepares
        /\ \E signals \in Registries :
            LET cache == CacheOr(cache_opt, Len(prepared) + 1, signals)
            IN  /\ \A i \in DOMAIN prepared : prepared[i].cache.id # cache.id
                /\ prepared' = Append(prepared, PreparedFile(config, cache, env))
        /\ config' = Extended(config)
        /\ UNCHANGED <<env, sr_vars, run_vars, walk_vars, fill_vars>>

\* PreparedFile.from_config(config, cache=cache_opt): the configuration is
\* read and left as it is; a cache is created if none is given.
PreparedFile_from_config_call(cache_opt) ==
    /\ Len(prepared) < MaxPrepares
    /\ \E signals \in Registries :
        LET cache == CacheOr(cache_opt, Len(prepared) + 1, signals)
        IN  /\ \A i \in DOMAIN prepared : prepared[i].cache.id # cache.id
            /\ prepared' = Append(prepared, PreparedFile(config, cache, env))
    /\ config' = config
    /\ UNCHANGED <<env, sr_vars, run_vars, walk_vars, fill_vars>>

FileNext ==
    \E cache_opt \in {<<>>} \cup {<<c>> : c \in GivenCaches} :
        PreparedFile_from_config_call(cache_opt)

SpecFile == FileInit /\ [][FileNext]_vars

----------------------------------------------------------------------------
(* C22                                                                     *)

\* An object without its cache field.
Uncached(x) == [f \in DOMAIN x \ {"cache"} |-> x[f]]

\* The shape of a prepared tree: every node with its configs, comparisons
\* and failure records in their order, whatever cache it holds.
RECURSIVE Shape(_)
Shape(node) ==
    IF node.type = "PreparedGroup"
    THEN [Uncached(node) EXCEPT
            !.configs = [k \in 1..Len(node.configs) |-> Shape(node.configs[k])]]
    ELSE [Uncached(node) EXCEPT
            !.comparisons = [k \in 1..Len(node.comparisons) |->
                                Uncached(node.comparisons[k])]]

\* The calls gave the same binding outcomes: the registries of their caches
\* yield a signal for the same names (device resolution, attribute lookup
\* and key validation do not go through the cache).
SameBinding(i, j) == prepared[i].cache.signals = prepared[j].cache.signals

----------------------------------------------------------------------------
(* C26                                                                     *)

\* Every object a node lists names that node as its parent.
RECURSIVE ParentsMirror(_)
ParentsMirror(node) ==
    /\ \A k \in 1..Len(node.prepare_failures) :
            node.prepare_failures[k].type = "FailedConfiguration"
                => node.prepare_failures[k].parent = NodeRef(node.path)
    /\ IF node.type = "PreparedGroup"
       THEN \A k \in 1..Len(node.configs) :
                /\ node.configs[k].parent = NodeRef(node.path)
                /\ ParentsMirror(node.configs[k])
       ELSE \A k \in 1..Len(node.comparisons) :
                node.comparisons[k].parent = NodeRef(node.path)

\* Following parent references from ref, the PreparedFile is reached within
\* the given number of steps.
RECURSIVE ReachesFile(_, _, _)
ReachesFile(root, ref, steps) ==
    IF ref = FileRef THEN TRUE
    ELSE IF steps = 0 \/ ref.kind # "node" THEN FALSE
    ELSE ReachesFile(root,
            (CHOOSE n \in Nodes(root) : n.path = ref.path).parent, steps - 1)

\* C26 as stated: in a tree built by PreparedFile.from_config every listed
\* object names its owner as parent, the root group's parent is the
\* PreparedFile, and the parent references of every node lead to the
\* PreparedFile without coming back to a node.
C26_AsStated ==
    \A i \in DOMAIN prepared :
        /\ ParentsMirror(prepared[i].root)
        /\ prepared[i].root.parent = FileRef
        /\ \A n \in Nodes(prepared[i].root) :
                ReachesFile(prepared[i].root, n.parent, Cardinality(Nodes(prepared[i].root)))

----------------------------------------------------------------------------
(* C27                                                                     *)

\* C27: in a tree built by PreparedFile.from_config every prepared group,
\* every prepared configuration and every leaf, at any depth, holds the
\* cache of the PreparedFile: the one handed in, or the one from_config
\* created when it got None.
C27_OneCachePerFile ==
    \A i \in DOMAIN prepared :
        \A n \in Nodes(prepared[i].root) :
            /\ n.cache = prepared[i].cache
            /\ n.type # "PreparedGroup" =>
                    \A k \in 1..Len(n.comparisons) :
                        n.comparisons[k].cache = prepared[i].cache

\* A file was prepared with cache None, and a leaf two levels below the
\* root holds the cache from_config created; another file was prepared
\* with a cache handed in.
C27_Witness ==
    \E i, j \in DOMAIN prepared :
        /\ prepared[i].cache.id = <<"DataCache", i>>
        /\ prepared[j].cache \in GivenCaches
        /\ \E n \in Nodes(prepared[i].root) :
                /\ n.type # "PreparedGroup"
                /\ Len(n.path) = 2
                /\ n.comparisons # <<>>
                /\ n.comparisons[1].cache = prepared[i].cache

----------------------------------------------------------------------------
(* C23                                                                     *)

\* The results the prepared children of a group hold, in the group's order.
ChildResults(g) == [k \in 1..Len(g.configs) |-> result[g.configs[k].path]]

\* C23: once PreparedFile.compare() has returned, every PreparedGroup
\* without prepare_failures holds the fold of its mode over the results its
\* prepared children hold, and what compare() returned is the root group's
\* result.
C23_TreeMatchesFold ==
    ret # <<>> =>
        /\ ret[1] = result[Root.path]
        /\ \A g \in Groups :
                g.prepare_failures = <<>> =>
                    result[g.path].severity =
                        _summarize_result_severity(g.config.mode, ChildResults(g))

\* compare() returned on a mode-ANY root without failures whose two
\* children ended with different severities: the root holds the lower one.
C23_Witness ==
    /\ ret # <<>>
    /\ Root.config.mode = any_
    /\ Root.prepare_failures = <<>>
    /\ Len(Root.configs) = 2
    /\ ChildResults(Root)[1].severity > ChildResults(Root)[2].severity
    /\ ret[1].severity = ChildResults(Root)[2].severity

----------------------------------------------------------------------------
(* C24                                                                     *)

\* Another leaf than the ones waiting for their fetch has not run yet.
LeafToStart == \E b \in LeafIds(Root) \ inflight : leaf[b].runs = 0

\* Leaf a comes before leaf b in the order of walk_comparisons: in an
\* earlier node, or earlier in the same node.
LeafBefore(a, b) ==
    \/ a[1] = b[1] /\ a[2] < b[2]
    \/ a[1] # b[1] /\ PathBefore(a[1], b[1])

\* C24 as stated: while a leaf of compare() waits for its fetch and another
\* leaf has not started, the compare() of a further leaf can begin, so that
\* two fetches are in flight at a time.
C24_AsStated ==
    (inflight # {} /\ LeafToStart) => ENABLED PreparedComparison_compare_begin

\* C24, amended: compare() runs the leaves one after the other in the
\* order of walk_comparisons: at most one leaf waits for its fetch, every
\* leaf before it has run and no leaf after it has begun.
C24_LeavesRunInTurn ==
    /\ Cardinality(inflight) <= 1
    /\ \A a \in inflight :
            \A b \in DOMAIN leaf :
                leaf[b].runs = (IF LeafBefore(b, a) THEN 1 ELSE 0)

\* The first of two leaves waits for its fetch and the second has not begun.
C24_Witness ==
    \E a, b \in DOMAIN leaf :
        /\ LeafBefore(a, b)
        /\ inflight = {a}
        /\ leaf[b].runs = 0

----------------------------------------------------------------------------
(* C25                                                                     *)

\* The last fill_cache call has run get_data_async of the k-th
\* PreparedComparison of walk_comparisons.
Attempted(k) ==
    IF fill[1].parallel
    THEN tasks[FillLeaves[k]].pc = "done"
    ELSE fill[1].state = "returned" \/ k <= fill[1].at

\* C25 as stated: when a fill_cache call has ended and its tasks, if any,
\* are done, get_data_async has been run for every PreparedComparison of
\* walk_comparisons, with parallel=True and with parallel=False, whatever
\* the fetch of another leaf did.
C25_AsStated ==
    (unset = {} /\ fill # <<>> /\ FillQuiet) =>
        \A k \in 1..Len(FillLeaves) : Attempted(k)

----------------------------------------------------------------------------
(* C28                                                                     *)

\* The severities the leaves of a terminal node hold.
LeafSeverities(n) ==
    {leaf[<<n.path, k>>].result.severity : k \in 1..Len(n.comparisons)}

\* C28: once compare() has returned on a Device, PV or Tool configuration
\* without prepare_failures, its severity is the highest severity of its
\* leaves, in a mode-ALL group as in a mode-ANY group.
C28_TerminalFoldsWithAll ==
    \A n \in Terminals :
        (n.path \in returned /\ n.prepare_failures = <<>> /\ n.comparisons # <<>>) =>
            /\ result[n.path].severity \in LeafSeverities(n)
            /\ \A s \in LeafSeverities(n) : s <= result[n.path].severity

\* compare() returned on a mode-ANY root whose only child is a check
\* without failures with a passing and a failing leaf: the check and the
\* root hold the failing severity.
C28_Witness ==
    /\ ret # <<>>
    /\ Root.config.mode = any_
    /\ Root.prepare_failures = <<>>
    /\ Len(Root.configs) = 1
    /\ \E n \in Terminals :
            /\ n.prepare_failures = <<>>
            /\ success \in LeafSeverities(n)
            /\ error \in LeafSeverities(n)
            /\ result[n.path].severity = error
            /\ ret[1].severity = error

----------------------------------------------------------------------------
(* C29                                                                     *)

\* The nodes and the leaves below a node.
NodesBelow(n) ==
    {m \in Nodes(Root) : Len(m.path) > Len(n.path) /\ SubSeq(m.path, 1, Len(n.path)) = n.path}

LeavesBelow(n) ==
    {id \in LeafIds(Root) :
        Len(id[1]) >= Len(n.path) /\ SubSeq(id[1], 1, Len(n.path)) = n.path}

\* C29: in every step of a compare() pass, a node's result changes only in
\* the step in which that node's compare() returns, and at that step every
\* node and leaf below it has got its result in this pass; so the root's
\* result is written last and a node's result is that of the pass before
\* (the default Result in the first pass) until then.
C29_ResultsBottomUp ==
    [][\A n \in Nodes(Root) :
            IF n.path \in returned' /\ n.path \notin returned
            THEN /\ \A m \in NodesBelow(n) : m.path \in returned
                 /\ \A id \in LeavesBelow(n) : leaf[id].runs = 1 /\ IsResult(leaf[id].result)
            ELSE result'[n.path] = result[n.path]]_vars

\* In the second pass a check below the root has returned, the root has
\* not, and the root still holds the result of the first pass.
C29_Witness ==
    /\ pass = 2
    /\ stack # <<>>
    /\ returned # {}
    /\ Root.path \notin returned
    /\ result[Root.path] # DefaultResult

----------------------------------------------------------------------------
(* get_result_from_comparison, called on what walk_comparisons hands out   *)
(* (a PreparedComparison or an exception) or on None, before, during or    *)
(* after compare().                                                        *)

\* A PreparedComparison as the function sees it: the leaf and its result.
ComparisonItem(id) == [type |-> "PreparedComparison", id |-> id, result |-> leaf[id].result]

\* What Result.from_exception can give: a Result of some severity.
FromException == {Result(s, <<"from_exception">>) : s \in Severity}

\* Mutant: the result of the leaf is handed on as it is, None or not.
get_result_hands_on_None(item, from_exception) ==
    IF item.type = "None"
    THEN <<NoneEntry, Result(internal_error, <<"no result available (comparison not run?)">>)>>
    ELSE IF IsException(item)
    THEN <<NoneEntry, from_exception>>
    ELSE <<item, item.result>>

\* get_result_from_comparison(item): the pair it returns; from_exception is
\* what Result.from_exception(item) gives.
get_result_from_comparison(item, from_exception) ==
    IF item.type = "None"
    THEN <<NoneEntry, Result(internal_error, <<"no result available (comparison not run?)">>)>>
    ELSE IF IsException(item)
    THEN <<NoneEntry, from_exception>>
    ELSE IF item.result.type = "None"
    THEN <<item, Result(internal_error, <<"no result available (comparison not run?)">>)>>
    ELSE <<item, item.result>>

\* The arguments of a call: None, an exception a node recorded, or a leaf.
ReportItems ==
    {NoneEntry}
    \cup UNION {{e \in Range(n.prepare_failures) : IsException(e)} : n \in Terminals}
    \cup {ComparisonItem(id) : id \in LeafIds(Root)}

get_result_from_comparison_call(item) ==
    /\ \E fe \in FromException :
            report' = <<[item |-> item, out |-> get_result_from_comparison(item, fe)]>>
    /\ UNCHANGED <<sr_vars, prep_vars, run_vars, fill_vars, gens>>

ReportInit == RunFrom(PassFiles) /\ FillIdle

ReportNext ==
    \/ Next
    \/ \E item \in ReportItems : get_result_from_comparison_call(item)

SpecReport == ReportInit /\ [][ReportNext]_vars

----------------------------------------------------------------------------
(* C30                                                                     *)

\* C30: get_result_from_comparison always returns a Result: for None,
\* (None, a Result of severity internal_error); for a leaf whose result is
\* None, (the leaf, a Result of severity internal_error); for a leaf that
\* holds a Result, (the leaf, that Result).  The missing result counts as
\* internal_error here, while a None entry makes _summarize_result_severity
\* return error in both modes.
C30_ReportNeverMissing ==
    report # <<>> =>
        LET item == report[1].item
            out == report[1].out
        IN  /\ IsResult(out[2])
            /\ item.type = "None" =>
                    out[1] = NoneEntry /\ out[2].severity = internal_error
            /\ (item.type = "PreparedComparison" /\ item.result.type = "None") =>
                    out[1] = item /\ out[2].severity = internal_error
            /\ (item.type = "PreparedComparison" /\ item.result.type # "None") =>
                    out = <<item, item.result>>
            /\ \A m \in GroupResultMode :
                    _summarize_result_severity(m, <<NoneEntry>>) = error

\* The function was called, while compare() was running, on a leaf that
\* had not run, and gave internal_error.
C30_Witness ==
    /\ report # <<>>
    /\ stack # <<>>
    /\ report[1].item.type = "PreparedComparison"
    /\ report[1].item.result.type = "None"
    /\ report[1].out[2].severity = internal_error

====
